---- MODULE Spec2Model ----
(***************************************************************************)
(* Image Creator backend (src/backend/main.py): the model fallback         *)
(* executor, the synchronous aggregate handlers, the asynchronous CSV      *)
(* batch coordinator, the asset lineage store, the record store with its   *)
(* rasters, and the canvas and prompt helpers.                             *)
(*                                                                         *)
(* Each component has its own specification over the shared variables:     *)
(*   SpecExec     _generate_single and the generate_from_image chain       *)
(*   SpecAgg      generate (count > 1) and compare                         *)
(*   SpecBatch    batch_csv, _run_batch, _generate_single_batch_item       *)
(*   SpecLineage  the record store with undo_image, redo_image and         *)
(*                get_image_history                                        *)
(*   SpecStore    the handlers that write records and rasters              *)
(*   SpecEdit     generate with toggle_favorite and export_svg             *)
(*   SpecLabel    the edit_type label of get_image_history                 *)
(*   SpecNorm     postprocess_image                                        *)
(*   SpecMask     the mask conversion of inpaint                           *)
(*   SpecEnrich   the call sites of chat                                   *)
(*   SpecValidate the checks of request values before the adapters         *)
(*   SpecInpaint  the three strategies of inpaint                          *)
(*   SpecGif      the frames of export_gif                                 *)
(*   SpecOutpaint the sizing of outpaint_image                             *)
(*   SpecWatermark the text layer of watermark_image                       *)
(*   SpecPrefer   _generate_single and generate_video_endpoint with a      *)
(*                preferred model                                          *)
(*   SpecBatchFair the batch coordinator with fair threads                 *)
(***************************************************************************)
EXTENDS Integers, Sequences, FiniteSets, TLC

VARIABLES
    ex,          \* the fallback chain in flight (one request)
    adapterOk,   \* for the request in flight: does adapter m answer with an image
    agg,         \* the synchronous aggregate request in flight
    jobs,        \* _batch_status: batch id -> job record
    units,       \* batch id -> the job's futures, one per CSV row
    runner,      \* batch id -> position of the job's handler, then of its
                 \* _run_batch thread
    jobs_db,     \* batch_jobs_db.json: what its text parses to, and its length
    runner_db,   \* batch id -> jobs_db2, the list _run_batch loaded
    db,          \* images_db.json of the lineage store
    now,         \* datetime.utcnow(), in clock ticks
    resp,        \* the last lineage response
    files,       \* IMAGES_DIR: image id -> what the file <id>.png holds
    reading,     \* the upload requests suspended in await <upload>.read()
    lab,         \* the chain entry get_image_history labels, and its label
    norm,        \* one call of postprocess_image
    msk,         \* the mask of one inpaint request on its way to the adapter
    enr,         \* one request of a handler that calls chat
    val,         \* one request whose inputs a handler validates
    inp,         \* the strategies of one inpaint request
    vid,         \* the submission chain of one video request
    gif,         \* one export_gif request
    wm,          \* one watermark_image request
    outp         \* the sizing of one outpaint_image request

vars == <<ex, adapterOk, agg, jobs, units, runner, jobs_db, runner_db,
          db, now, resp, files, reading, lab, norm, msk, enr,
          val, inp, vid, gif, wm, outp>>

\* The variables of the canvas and prompt helpers.
Helpers == <<lab, norm, msk, enr>>

\* The variables of the single-request handlers.
Handlers == <<val, inp, vid, gif, wm, outp>>

\* The variables of the executor, the aggregates, the batch coordinator and
\* the stores.
Core == <<ex, adapterOk, agg, jobs, units, runner, jobs_db, runner_db,
          db, now, resp, files, reading>>

\* What the actions of one component leave alone.
OutsideExec == <<agg, jobs, units, runner, jobs_db, runner_db, db, now, resp, files, reading,
                Helpers, Handlers>>
OutsideAgg == <<ex, adapterOk, jobs, units, runner, jobs_db, runner_db,
                now, resp, files, reading, Helpers, Handlers>>
OutsideBatch == <<ex, adapterOk, agg, db, now, resp,
                  files, reading, Helpers, Handlers>>
OutsideLineage == <<ex, adapterOk, agg, jobs, units, runner, jobs_db,
                    runner_db, reading, Helpers, Handlers>>

\* Python's None where a string is expected, where an id is expected, and
\* where an error, an image or a list entry is expected.
None == "None"
NoId == 0
Nothing == <<>>

Reply(status, detail, body) ==
    [status |-> status, detail |-> detail, body |-> body]

\* An exception no handler catches.
Unhandled == Reply(500, "Internal Server Error", Nothing)

\* What a file of IMAGES_DIR holds: the pixel dimensions its header states,
\* and whether Pillow can load its pixels (a truncated or damaged download
\* opens, but raises when it is cropped, resized or converted).
ImageFile(dims, intact) == [dims |-> dims, intact |-> intact]

\* What a handler finds for image_id: no record, a record whose file Pillow
\* cannot load (_generate_single stores the file of an adapter as it came
\* when postprocess_image raised on it), or a record with a whole file.
ParentStates == {"absent", "damaged", "intact"}

(***************************************************************************)
(* Model fallback executor                                                 *)
(***************************************************************************)

IMAGE_MODELS == <<"gpt-image", "gemini-image">>

\* An alias outside IMAGE_MODELS, which _generate_single accepts as `model`.
OtherModel == "other-model"

\* The edit strategy generate_from_image tries before the generation chain.
EditStrategy == "edit:gpt-image"

Adapters == {"gpt-image", "gemini-image", OtherModel, EditStrategy}

ModelArgs == {None, "gpt-image", "gemini-image", OtherModel}

SeqToSet(s) == {s[i] : i \in 1..Len(s)}

\* list.remove(x): the list without the first occurrence of x.
RECURSIVE Remove(_, _)
Remove(s, x) ==
    IF s = <<>> THEN <<>>
    ELSE IF Head(s) = x THEN Tail(s)
    ELSE <<Head(s)>> \o Remove(Tail(s), x)

\* The requested model put first without removing it from the list.
ModelsToTry_KeepsDuplicate(model) ==
    IF model # None THEN <<model>> \o IMAGE_MODELS ELSE IMAGE_MODELS

\* models_to_try: IMAGE_MODELS with the requested model moved (or put) first.
ModelsToTry(model) ==
    IF model # None /\ model \in SeqToSet(IMAGE_MODELS)
    THEN <<model>> \o Remove(IMAGE_MODELS, model)
    ELSE IF model # None
    THEN <<model>> \o IMAGE_MODELS
    ELSE IMAGE_MODELS

\* What adapter m writes to the output file, and the error it raises.
Output(m) == <<"image", m>>
ErrorOf(m) == <<"error", m>>

\* Oracles that answer FALSE outside the chain that will run.
Oracles(chain) ==
    {f \in [Adapters -> BOOLEAN] : \A a \in Adapters \ SeqToSet(chain) : ~f[a]}

ExIdle ==
    [op |-> None, model |-> None, chain |-> <<>>, pos |-> 0, invoked |-> <<>>,
     last_error |-> Nothing, output |-> Nothing, state |-> "idle",
     result |-> [kind |-> "none"]]

\* _generate_single entered: the chain is built, nothing attempted yet.
GS_Start(model) ==
    /\ ex.state \in {"idle", "returned", "raised"}
    /\ \E f \in Oracles(ModelsToTry(model)) : adapterOk' = f
    /\ ex' = [ExIdle EXCEPT !.op = "_generate_single", !.model = model,
                            !.chain = ModelsToTry(model), !.pos = 1,
                            !.state = "trying"]
    /\ UNCHANGED OutsideExec

\* The loop body without its break: a success does not end the loop.
LoopAttempt_NoBreak ==
    LET m == ex.chain[ex.pos] IN
    IF adapterOk[m]
    THEN ex' = [ex EXCEPT !.invoked = Append(@, m), !.output = Output(m),
                          !.pos = @ + 1,
                          !.state = IF ex.pos = Len(ex.chain) THEN "generated"
                                    ELSE "trying"]
    ELSE ex' = [ex EXCEPT !.invoked = Append(@, m), !.last_error = ErrorOf(m),
                          !.pos = @ + 1]

\* The loop body keeping the first error instead of the last.
LoopAttempt_KeepsFirstError ==
    LET m == ex.chain[ex.pos] IN
    IF adapterOk[m]
    THEN ex' = [ex EXCEPT !.invoked = Append(@, m), !.output = Output(m),
                          !.state = "generated"]
    ELSE ex' = [ex EXCEPT !.invoked = Append(@, m),
                          !.last_error = IF @ = Nothing THEN ErrorOf(m) ELSE @,
                          !.pos = @ + 1]

\* One pass through the body of `for m in models_to_try`.
LoopAttempt ==
    LET m == ex.chain[ex.pos] IN
    IF adapterOk[m]
    THEN ex' = [ex EXCEPT !.invoked = Append(@, m), !.output = Output(m),
                          !.state = "generated"]
    ELSE ex' = [ex EXCEPT !.invoked = Append(@, m), !.last_error = ErrorOf(m),
                          !.pos = @ + 1]

GS_Attempt ==
    /\ ex.op = "_generate_single"
    /\ ex.state = "trying"
    /\ ex.pos <= Len(ex.chain)
    /\ LoopAttempt
    /\ UNCHANGED adapterOk
    /\ UNCHANGED OutsideExec

\* The for loop's else branch: every model raised.
GS_Exhausted ==
    /\ ex.op = "_generate_single"
    /\ ex.state = "trying"
    /\ ex.pos > Len(ex.chain)
    /\ ex' = [ex EXCEPT !.state = "raised",
                        !.result = [kind |-> "RuntimeError",
                                    message |-> "All image models failed",
                                    last_error |-> ex.last_error]]
    /\ UNCHANGED adapterOk
    /\ UNCHANGED OutsideExec

\* postprocess_image (its own failure is swallowed) and the return.
GS_Return ==
    /\ ex.op = "_generate_single"
    /\ ex.state = "generated"
    /\ ex' = [ex EXCEPT !.state = "returned",
                        !.result = [kind |-> "ok", image |-> ex.output]]
    /\ UNCHANGED adapterOk
    /\ UNCHANGED OutsideExec

\* generate_from_image reaches its generation section.
GFI_Start ==
    /\ ex.state \in {"idle", "returned", "raised"}
    /\ \E f \in Oracles(<<EditStrategy>> \o IMAGE_MODELS) : adapterOk' = f
    /\ ex' = [ExIdle EXCEPT !.op = "generate_from_image",
                            !.chain = <<EditStrategy>>, !.pos = 1,
                            !.state = "editing"]
    /\ UNCHANGED OutsideExec

\* edit_image with the reference; on failure the text-only chain takes over.
GFI_Edit ==
    /\ ex.op = "generate_from_image"
    /\ ex.state = "editing"
    /\ IF adapterOk[EditStrategy]
       THEN ex' = [ex EXCEPT !.invoked = Append(@, EditStrategy),
                             !.output = Output(EditStrategy),
                             !.state = "generated"]
       ELSE ex' = [ex EXCEPT !.invoked = Append(@, EditStrategy),
                             !.last_error = ErrorOf(EditStrategy),
                             !.chain = IMAGE_MODELS, !.pos = 1,
                             !.state = "trying"]
    /\ UNCHANGED adapterOk
    /\ UNCHANGED OutsideExec

GFI_Attempt ==
    /\ ex.op = "generate_from_image"
    /\ ex.state = "trying"
    /\ ex.pos <= Len(ex.chain)
    /\ LoopAttempt
    /\ UNCHANGED adapterOk
    /\ UNCHANGED OutsideExec

GFI_Exhausted ==
    /\ ex.op = "generate_from_image"
    /\ ex.state = "trying"
    /\ ex.pos > Len(ex.chain)
    /\ ex' = [ex EXCEPT !.state = "raised",
                        !.result = [kind |-> "HTTPException",
                                    message |-> "Image generation failed",
                                    last_error |-> ex.last_error]]
    /\ UNCHANGED adapterOk
    /\ UNCHANGED OutsideExec

GFI_Postprocess ==
    /\ ex.op = "generate_from_image"
    /\ ex.state = "generated"
    /\ ex' = [ex EXCEPT !.state = "returned",
                        !.result = [kind |-> "ok", image |-> ex.output]]
    /\ UNCHANGED adapterOk
    /\ UNCHANGED OutsideExec

InitExec == ex = ExIdle /\ adapterOk = [a \in Adapters |-> FALSE]

NextExec ==
    \/ \E model \in ModelArgs : GS_Start(model)
    \/ GS_Attempt
    \/ GS_Exhausted
    \/ GS_Return
    \/ GFI_Start
    \/ GFI_Edit
    \/ GFI_Attempt
    \/ GFI_Exhausted
    \/ GFI_Postprocess

(***************************************************************************)
(* _generate_single as one call: what a worker thread's future resolves to *)
(***************************************************************************)

RECURSIVE RunChain(_, _, _)
RunChain(chain, ok, last) ==
    IF chain = <<>>
    THEN [kind |-> "RuntimeError", message |-> "All image models failed",
          last_error |-> last]
    ELSE IF ok[Head(chain)]
    THEN [kind |-> "ok", image |-> Output(Head(chain))]
    ELSE RunChain(Tail(chain), ok, ErrorOf(Head(chain)))

GenerateSingle(model, ok) == RunChain(ModelsToTry(model), ok, Nothing)

(***************************************************************************)
(* Records                                                                 *)
(***************************************************************************)

\* dict.get(k) of an id-valued key: None for a missing key.
GetId(r, k) == IF k \in DOMAIN r THEN r[k] ELSE NoId

\* str(e) of the RuntimeError a worker's _generate_single raised.
StrOfError(e) == <<e.message, e.last_error>>

\* Clock ticks per second: a tick stands for a microsecond of utcnow().
TicksPerSecond == 2

\* datetime.isoformat(): the fraction is left out when it is zero. The text
\* is modelled by its fixed-width fields, whole seconds then the fraction.
IsoFormat(t) ==
    IF t % TicksPerSecond = 0
    THEN <<t \div TicksPerSecond>>
    ELSE <<t \div TicksPerSecond, t % TicksPerSecond>>

\* Python's str < str on two such texts: the first differing field decides,
\* and a proper prefix is the smaller.
RECURSIVE StrLess(_, _)
StrLess(a, b) ==
    IF b = <<>> THEN FALSE
    ELSE IF a = <<>> THEN TRUE
    ELSE IF Head(a) # Head(b) THEN Head(a) < Head(b)
    ELSE StrLess(Tail(a), Tail(b))

\* A fresh uuid4: a number no record of the list carries.
MaxId(list) ==
    IF list = <<>> THEN 0
    ELSE CHOOSE n \in {list[i].id : i \in 1..Len(list)} :
            \A i \in 1..Len(list) : list[i].id <= n

\* list.insert(0, r) for every r of rs, in order.
RECURSIVE InsertAll(_, _)
InsertAll(list, rs) ==
    IF rs = <<>> THEN list
    ELSE InsertAll(<<Head(rs)>> \o list, Tail(rs))

(***************************************************************************)
(* Synchronous aggregate: generate with count > 1, and compare             *)
(***************************************************************************)

\* The most assets the record store holds in a run of the model.
MaxAssets == 3

\* GenerateRequest.count: ge=1, le=4; the parallel branch runs for count > 1.
MaxCount == 3

AggIdle ==
    [op |-> None, state |-> "idle", unit |-> <<>>, records |-> <<>>,
     errors |-> <<>>, results |-> <<>>, base |-> 0,
     response |-> [status |-> 0]]

UnitsDone(us) == \A i \in 1..Len(us) : us[i].st = "collected"

\* generate, count > 1: one future per variant, all on their own worker.
Agg_Generate(count) ==
    /\ agg.state \in {"idle", "responded"}
    /\ count > 1
    /\ Len(db) + count <= MaxAssets
    /\ agg' = [AggIdle EXCEPT
                 !.op = "generate", !.state = "running", !.base = MaxId(db),
                 !.unit = [i \in 1..count |->
                             [model |-> None, st |-> "running",
                              res |-> [kind |-> "none"]]]]
    /\ UNCHANGED db
    /\ UNCHANGED OutsideAgg

\* compare: one future per model of IMAGE_MODELS, each asking for its model.
Agg_Compare ==
    /\ agg.state \in {"idle", "responded"}
    /\ Len(db) + Len(IMAGE_MODELS) <= MaxAssets
    /\ agg' = [AggIdle EXCEPT
                 !.op = "compare", !.state = "running", !.base = MaxId(db),
                 !.unit = [i \in 1..Len(IMAGE_MODELS) |->
                             [model |-> IMAGE_MODELS[i], st |-> "running",
                              res |-> [kind |-> "none"]]]]
    /\ UNCHANGED db
    /\ UNCHANGED OutsideAgg

\* A worker's _generate_single call returns or raises.
Agg_UnitFinish(i) ==
    /\ agg.state = "running"
    /\ i \in 1..Len(agg.unit)
    /\ agg.unit[i].st = "running"
    /\ \E ok \in Oracles(ModelsToTry(agg.unit[i].model)) :
          agg' = [agg EXCEPT !.unit[i].st = "finished",
                             !.unit[i].res =
                                 GenerateSingle(agg.unit[i].model, ok)]
    /\ UNCHANGED db
    /\ UNCHANGED OutsideAgg

\* The record the handler builds for the future of unit i.
AggRecord(i) ==
    IF agg.op = "generate"
    THEN [id |-> agg.base + i, size |-> "1024x1024",
          raster |-> agg.unit[i].res.image, group_id |-> <<"group", agg.base>>,
          created_at |-> IsoFormat(now)]
    ELSE [id |-> agg.base + i, size |-> "1024x1024",
          raster |-> agg.unit[i].res.image, model |-> agg.unit[i].model,
          comparison_id |-> <<"comparison", agg.base>>, created_at |-> IsoFormat(now)]

\* One turn of `for future in as_completed(futures)` in generate.
Agg_GenerateCollect(i) ==
    /\ agg.state = "running" /\ agg.op = "generate"
    /\ i \in 1..Len(agg.unit)
    /\ agg.unit[i].st = "finished"
    /\ IF agg.unit[i].res.kind = "ok"
       THEN agg' = [agg EXCEPT !.unit[i].st = "collected",
                               !.records = Append(@, AggRecord(i))]
       ELSE agg' = [agg EXCEPT !.unit[i].st = "collected",
                               !.errors =
                                   Append(@, StrOfError(agg.unit[i].res))]
    /\ UNCHANGED db
    /\ UNCHANGED OutsideAgg

\* One turn of `for future in as_completed(futures)` in compare.
Agg_CompareCollect(i) ==
    /\ agg.state = "running" /\ agg.op = "compare"
    /\ i \in 1..Len(agg.unit)
    /\ agg.unit[i].st = "finished"
    /\ IF agg.unit[i].res.kind = "ok"
       THEN agg' = [agg EXCEPT
                      !.unit[i].st = "collected",
                      !.records = Append(@, AggRecord(i)),
                      !.results = Append(@, [model |-> agg.unit[i].model,
                                             image |-> <<AggRecord(i)>>,
                                             error |-> Nothing])]
       ELSE agg' = [agg EXCEPT
                      !.unit[i].st = "collected",
                      !.results = Append(@, [model |-> agg.unit[i].model,
                                             image |-> Nothing,
                                             error |->
                                                 StrOfError(agg.unit[i].res)])]
    /\ UNCHANGED db
    /\ UNCHANGED OutsideAgg

\* generate after the pool has shut down: fail hard, or save and answer.
Agg_GenerateRespond ==
    /\ agg.state = "running" /\ agg.op = "generate"
    /\ UnitsDone(agg.unit)
    /\ IF agg.records = <<>>
       THEN /\ agg' = [agg EXCEPT
                         !.state = "responded",
                         !.response = [status |-> 500,
                                       detail |-> "All generations failed",
                                       joined |-> agg.errors]]
            /\ UNCHANGED db
       ELSE /\ agg' = [agg EXCEPT
                         !.state = "responded",
                         !.response = [status |-> 200,
                                       body |-> [images |-> agg.records,
                                                 group_id |->
                                                     <<"group", agg.base>>]]]
            /\ db' = InsertAll(db, agg.records)
    /\ UNCHANGED OutsideAgg

\* compare after the pool has shut down.
Agg_CompareRespond ==
    /\ agg.state = "running" /\ agg.op = "compare"
    /\ UnitsDone(agg.unit)
    /\ IF \A k \in 1..Len(agg.results) : agg.results[k].error # Nothing
       THEN /\ agg' = [agg EXCEPT
                         !.state = "responded",
                         !.response = [status |-> 500,
                                       detail |-> "Both models failed to generate images"]]
            /\ UNCHANGED db
       ELSE /\ agg' = [agg EXCEPT
                         !.state = "responded",
                         !.response = [status |-> 200,
                                       body |-> [results |-> agg.results,
                                                 comparison_id |->
                                                     <<"comparison", agg.base>>]]]
            /\ db' = IF agg.records # <<>> THEN InsertAll(db, agg.records)
                     ELSE db
    /\ UNCHANGED OutsideAgg

NextAgg ==
    \/ \E count \in 2..MaxCount : Agg_Generate(count)
    \/ Agg_Compare
    \/ \E i \in 1..MaxCount : Agg_UnitFinish(i)
    \/ \E i \in 1..MaxCount : Agg_GenerateCollect(i)
    \/ \E i \in 1..MaxCount : Agg_CompareCollect(i)
    \/ Agg_GenerateRespond
    \/ Agg_CompareRespond

(***************************************************************************)
(* Asynchronous CSV batch                                                  *)
(***************************************************************************)

\* Batch jobs submitted in a run of the model, and CSV rows over all of them.
MaxJobs == 2
MaxRows == 3

\* ThreadPoolExecutor(max_workers=4) of _run_batch.
PoolSize == 4

RECURSIVE SumTotals(_)
SumTotals(js) == IF js = <<>> THEN 0 ELSE Head(js).total + SumTotals(Tail(js))

\* What generate_image returns on success (the output path, a str) and the
\* value of result["base64"] in _generate_single_batch_item: subscripting a
\* str with a str raises TypeError.
GenerateImageReturn == [type |-> "str", value |-> "generated_image.png"]

Subscript(result, key) ==
    IF result.type = "dict" /\ key \in DOMAIN result.value
    THEN [raised |-> FALSE, value |-> result.value[key]]
    ELSE [raised |-> TRUE, value |-> "TypeError"]

\* The parameters of postprocess_image, and the arguments of the call
\* postprocess_image(img, w, h) in _generate_single_batch_item: a call with
\* more arguments than parameters raises TypeError.
PostprocessImageParams == <<"file_path", "target_size">>
BatchItemPostprocessArgs == <<"img", "w", "h">>

\* _generate_single_batch_item: where the call stands afterwards, given
\* whether the adapter answered. No outcome leads to the statements
\* db = load_db(); db.append(record); save_db(db) at its end, so no step of
\* the model stands for them.
GenerateSingleBatchItem(genOk) ==
    IF ~genOk
    THEN [st |-> "raised", gen |-> "failed", exc |-> "RuntimeError"]
    ELSE IF Subscript(GenerateImageReturn, "base64").raised
    THEN [st |-> "raised", gen |-> "ok", exc |-> "TypeError"]
    ELSE IF Len(BatchItemPostprocessArgs) # Len(PostprocessImageParams)
    THEN [st |-> "raised", gen |-> "ok", exc |-> "TypeError"]
    ELSE [st |-> "at_load_db", gen |-> "ok", exc |-> None]

\* len(str(n)) of a counter.
RECURSIVE Digits(_)
Digits(n) == IF n < 10 THEN 1 ELSE 1 + Digits(n \div 10)

\* The characters of one job in json.dumps(records, indent=2): the keys,
\* quotes and indentation (129, the [] of results among them: no unit
\* returns a record, see GenerateSingleBatchItem), the uuid4 text (36), the
\* three counters, the status and the isoformat text (19 characters, 26
\* with the fraction).
JobTextLen(j) ==
    129 + 36 + Digits(j.total) + Digits(j.completed) + Digits(j.failed)
    + Len(j.status) + (IF Len(j.created_at) = 1 THEN 19 ELSE 26)

RECURSIVE JobsTextLen(_)
JobsTextLen(list) ==
    IF list = <<>> THEN 0 ELSE JobTextLen(Head(list)) + JobsTextLen(Tail(list))

\* len(json.dumps(records, indent=2)): [] for no record, else the jobs
\* between "[\n" and "\n]" with ",\n" between two of them.
TextLen(list) ==
    IF list = <<>> THEN 2
    ELSE 4 + JobsTextLen(list) + 2 * (Len(list) - 1)

\* batch_jobs_db.json is followed by what json.loads makes of its text: ok
\* and the list it parses to, or not ok for a text json.loads refuses, and
\* the length of the text. An absent file has length 0 and loads as [].
AbsentFile == [ok |-> TRUE, list |-> <<>>, len |-> 0]

\* Path.write_text opens the file with mode "w", which empties it: until
\* the text is written the file holds the empty text, which json.loads
\* refuses.
Truncated == [ok |-> FALSE, list |-> <<>>, len |-> 0]

\* Path.write_text then writes its text from offset 0. load_batch_jobs_db
\* and save_batch_jobs_db take no lock: when another runner has written a
\* longer text since the file was emptied, the end of that text stays
\* behind the new one and json.loads refuses the whole.
WriteText(file, list) ==
    IF file.len <= TextLen(list)
    THEN [ok |-> TRUE, list |-> list, len |-> TextLen(list)]
    ELSE [ok |-> FALSE, list |-> <<>>, len |-> file.len]

\* load_batch_jobs_db: the list of the file, or JSONDecodeError raised by
\* json.loads.
LoadBatchJobsDb ==
    IF jobs_db.ok THEN [raised |-> FALSE, value |-> jobs_db.list]
    ELSE [raised |-> TRUE, value |-> <<>>]

\* batch_csv up to load_batch_jobs_db: the job enters _batch_status. When
\* the load raises, the request ends there with a 500: the job stays in
\* _batch_status, no thread is started and the file gets no entry.
Batch_Submit(n) ==
    /\ Len(jobs) < MaxJobs
    /\ n >= 1
    /\ SumTotals(jobs) + n <= MaxRows
    /\ \A b \in 1..Len(runner) :
          runner[b] \notin {"persisting", "writing_first"}
    /\ jobs' = Append(jobs, [id |-> Len(jobs) + 1, total |-> n, completed |-> 0,
                             failed |-> 0, results |-> <<>>,
                             status |-> "processing",
                             created_at |-> IsoFormat(now)])
    /\ units' = Append(units, [u \in 1..n |-> [st |-> "unsubmitted",
                                              gen |-> "none"]])
    /\ runner' = Append(runner, IF LoadBatchJobsDb.raised THEN "raised"
                                ELSE "persisting")
    /\ runner_db' = Append(runner_db, LoadBatchJobsDb.value)
    /\ UNCHANGED jobs_db
    /\ UNCHANGED OutsideBatch

\* batch_csv: jobs_db.append and save_batch_jobs_db up to the opening of
\* the file by write_text.
Batch_PersistOpen(b) ==
    /\ b \in 1..Len(runner)
    /\ runner[b] = "persisting"
    /\ jobs_db' = Truncated
    /\ runner' = [runner EXCEPT ![b] = "writing_first"]
    /\ UNCHANGED <<jobs, units, runner_db>>
    /\ UNCHANGED OutsideBatch

\* batch_csv from the write of write_text on: the initial persist is
\* written, then the thread submits every row to the pool.
Batch_Persist(b) ==
    /\ b \in 1..Len(runner)
    /\ runner[b] = "writing_first"
    /\ jobs_db' = WriteText(jobs_db, Append(runner_db[b], jobs[b]))
    /\ runner' = [runner EXCEPT ![b] = "collecting"]
    /\ units' = [units EXCEPT ![b] =
                    [u \in 1..Len(units[b]) |-> [units[b][u] EXCEPT
                                                   !.st = "queued"]]]
    /\ UNCHANGED <<jobs, runner_db>>
    /\ UNCHANGED OutsideBatch

Running(b) == {u \in 1..Len(units[b]) : units[b][u].st = "running"}

\* A free worker takes the oldest queued row.
Batch_UnitStart(b, u) ==
    /\ b \in 1..Len(units) /\ u \in 1..Len(units[b])
    /\ units[b][u].st = "queued"
    /\ \A v \in 1..(u - 1) : units[b][v].st # "queued"
    /\ Cardinality(Running(b)) < PoolSize
    /\ units' = [units EXCEPT ![b][u].st = "running"]
    /\ UNCHANGED <<jobs, runner, jobs_db, runner_db>>
    /\ UNCHANGED OutsideBatch

\* The worker's call of _generate_single_batch_item ends.
Batch_UnitRun(b, u) ==
    /\ b \in 1..Len(units) /\ u \in 1..Len(units[b])
    /\ units[b][u].st = "running"
    /\ \E genOk \in BOOLEAN :
          units' = [units EXCEPT
                      ![b][u].st = GenerateSingleBatchItem(genOk).st,
                      ![b][u].gen = GenerateSingleBatchItem(genOk).gen]
    /\ UNCHANGED <<jobs, runner, jobs_db, runner_db>>
    /\ UNCHANGED OutsideBatch

\* The loop turn counting a failed future twice.
Batch_Collect_DoubleCount(b, u) ==
    /\ b \in 1..Len(units) /\ u \in 1..Len(units[b])
    /\ runner[b] = "collecting"
    /\ units[b][u].st \in {"raised", "returned"}
    /\ IF units[b][u].st = "returned"
       THEN jobs' = [jobs EXCEPT ![b].results = Append(@, u),
                                 ![b].completed = @ + 1]
       ELSE jobs' = [jobs EXCEPT ![b].failed = @ + 2]
    /\ units' = [units EXCEPT ![b][u].st = "collected"]
    /\ UNCHANGED <<runner, jobs_db, runner_db>>
    /\ UNCHANGED OutsideBatch

\* The loop without its try/except: the first failed future ends the loop
\* and the futures still pending are never counted.
Batch_Collect_Abort(b, u) ==
    /\ b \in 1..Len(units) /\ u \in 1..Len(units[b])
    /\ runner[b] = "collecting"
    /\ units[b][u].st \in {"raised", "returned"}
    /\ jobs' = [jobs EXCEPT ![b].failed = @ + 1]
    /\ units' = [units EXCEPT ![b] =
                    [v \in 1..Len(units[b]) |-> [units[b][v] EXCEPT
                                                   !.st = "collected"]]]
    /\ UNCHANGED <<runner, jobs_db, runner_db>>
    /\ UNCHANGED OutsideBatch

\* The loop counting a future that raised as completed.
Batch_Collect_CompletesFailures(b, u) ==
    /\ b \in 1..Len(units) /\ u \in 1..Len(units[b])
    /\ runner[b] = "collecting"
    /\ units[b][u].st \in {"raised", "returned"}
    /\ IF units[b][u].st = "returned"
       THEN jobs' = [jobs EXCEPT ![b].results = Append(@, u),
                                 ![b].completed = @ + 1]
       ELSE jobs' = [jobs EXCEPT ![b].completed = @ + 1]
    /\ units' = [units EXCEPT ![b][u].st = "collected"]
    /\ UNCHANGED <<runner, jobs_db, runner_db>>
    /\ UNCHANGED OutsideBatch

\* One statement of a turn of `for f in as_completed(futures)` in
\* _run_batch: results.append(record) and completed += 1 are two
\* statements of the thread, failed += 1 is the except branch.
Batch_Collect(b, u) ==
    /\ b \in 1..Len(units) /\ u \in 1..Len(units[b])
    /\ runner[b] = "collecting"
    /\ units[b][u].st \in {"raised", "returned", "appended"}
    /\ \A v \in 1..Len(units[b]) : v # u => units[b][v].st # "appended"
    /\ IF units[b][u].st = "returned"
       THEN /\ jobs' = [jobs EXCEPT ![b].results = Append(@, u)]
            /\ units' = [units EXCEPT ![b][u].st = "appended"]
       ELSE IF units[b][u].st = "appended"
       THEN /\ jobs' = [jobs EXCEPT ![b].completed = @ + 1]
            /\ units' = [units EXCEPT ![b][u].st = "collected"]
       ELSE /\ jobs' = [jobs EXCEPT ![b].failed = @ + 1]
            /\ units' = [units EXCEPT ![b][u].st = "collected"]
    /\ UNCHANGED <<runner, jobs_db, runner_db>>
    /\ UNCHANGED OutsideBatch

\* Status set to complete without waiting for the pool.
Batch_Complete_Early(b) ==
    /\ b \in 1..Len(runner)
    /\ runner[b] = "collecting"
    /\ jobs' = [jobs EXCEPT ![b].status = "complete"]
    /\ runner' = [runner EXCEPT ![b] = "loading"]
    /\ UNCHANGED <<units, jobs_db, runner_db>>
    /\ UNCHANGED OutsideBatch

\* The pool has shut down: status becomes complete.
Batch_Complete(b) ==
    /\ b \in 1..Len(runner)
    /\ runner[b] = "collecting"
    /\ \A u \in 1..Len(units[b]) : units[b][u].st = "collected"
    /\ jobs' = [jobs EXCEPT ![b].status = "complete"]
    /\ runner' = [runner EXCEPT ![b] = "loading"]
    /\ UNCHANGED <<units, jobs_db, runner_db>>
    /\ UNCHANGED OutsideBatch

\* jobs_db2 = load_batch_jobs_db(). When the load raises, the thread ends
\* with the exception: the final persist is never written.
Batch_FinalLoad(b) ==
    /\ b \in 1..Len(runner)
    /\ runner[b] = "loading"
    /\ runner_db' = [runner_db EXCEPT ![b] = LoadBatchJobsDb.value]
    /\ runner' = [runner EXCEPT ![b] = IF LoadBatchJobsDb.raised THEN "raised"
                                      ELSE "saving"]
    /\ UNCHANGED <<jobs, units, jobs_db>>
    /\ UNCHANGED OutsideBatch

\* The first entry of the list with the job's id takes the job's fields.
UpdateJob(list, job) ==
    [k \in 1..Len(list) |->
        IF list[k].id = job.id /\ \A h \in 1..(k - 1) : list[h].id # job.id
        THEN job ELSE list[k]]

\* j.update(...) on the loaded list and save_batch_jobs_db(jobs_db2) up to
\* the opening of the file by write_text.
Batch_FinalSaveOpen(b) ==
    /\ b \in 1..Len(runner)
    /\ runner[b] = "saving"
    /\ jobs_db' = Truncated
    /\ runner' = [runner EXCEPT ![b] = "writing_final"]
    /\ UNCHANGED <<jobs, units, runner_db>>
    /\ UNCHANGED OutsideBatch

\* save_batch_jobs_db(jobs_db2): the write of write_text, which ends the
\* thread.
Batch_FinalSave(b) ==
    /\ b \in 1..Len(runner)
    /\ runner[b] = "writing_final"
    /\ jobs_db' = WriteText(jobs_db, UpdateJob(runner_db[b], jobs[b]))
    /\ runner' = [runner EXCEPT ![b] = "done"]
    /\ UNCHANGED <<jobs, units, runner_db>>
    /\ UNCHANGED OutsideBatch

NextBatch ==
    \/ \E n \in 1..MaxRows : Batch_Submit(n)
    \/ \E b \in 1..MaxJobs : Batch_PersistOpen(b)
    \/ \E b \in 1..MaxJobs : Batch_Persist(b)
    \/ \E b \in 1..MaxJobs, u \in 1..MaxRows : Batch_UnitStart(b, u)
    \/ \E b \in 1..MaxJobs, u \in 1..MaxRows : Batch_UnitRun(b, u)
    \/ \E b \in 1..MaxJobs, u \in 1..MaxRows : Batch_Collect(b, u)
    \/ \E b \in 1..MaxJobs : Batch_Complete(b)
    \/ \E b \in 1..MaxJobs : Batch_FinalLoad(b)
    \/ \E b \in 1..MaxJobs : Batch_FinalSaveOpen(b)
    \/ \E b \in 1..MaxJobs : Batch_FinalSave(b)

(***************************************************************************)
(* Asset lineage: the record store, undo_image and redo_image              *)
(***************************************************************************)

\* The last tick the clock reaches in a run of the model.
MaxClock == 1

\* next((r for r in db if r["id"] == id), None): <<r>>, or <<>> for None.
Find(list, id) ==
    IF \E k \in 1..Len(list) : list[k].id = id
    THEN <<list[CHOOSE k \in 1..Len(list) :
                  /\ list[k].id = id
                  /\ \A h \in 1..(k - 1) : list[h].id # id]>>
    ELSE Nothing

\* [r for r in db if r.get("parent_id") == image_id]
ChildrenOf(list, id) ==
    LET Is(r) == GetId(r, "parent_id") = id IN SelectSeq(list, Is)

\* r.get("created_at", "")
CreatedAt(r) == IF "created_at" \in DOMAIN r THEN r.created_at ELSE <<>>

\* list.sort(key=created_at, reverse=True): descending and stable, so records
\* with equal keys keep the order they had in the list.
\* The sort without reverse=True.
RECURSIVE InsertAsc(_, _)
InsertAsc(sorted, r) ==
    IF sorted = <<>> THEN <<r>>
    ELSE IF StrLess(CreatedAt(r), CreatedAt(Head(sorted)))
    THEN <<r>> \o sorted
    ELSE <<Head(sorted)>> \o InsertAsc(Tail(sorted), r)

RECURSIVE InsertDesc(_, _)
InsertDesc(sorted, r) ==
    IF sorted = <<>> THEN <<r>>
    ELSE IF StrLess(CreatedAt(Head(sorted)), CreatedAt(r))
    THEN <<r>> \o sorted
    ELSE <<Head(sorted)>> \o InsertDesc(Tail(sorted), r)

RECURSIVE SortDesc(_, _)
SortDesc(done, rest) ==
    IF rest = <<>> THEN done
    ELSE SortDesc(InsertDesc(done, Head(rest)), Tail(rest))

\* undo_image returning the record it was asked about.
Undo_ReturnsRecord(list, image_id) ==
    LET record == Find(list, image_id) IN
    IF record = Nothing
    THEN [status |-> 404, detail |-> "Image not found", body |-> Nothing]
    ELSE LET parent_id == GetId(record[1], "parent_id") IN
         IF parent_id = NoId
         THEN [status |-> 400, detail |-> "Nothing to undo", body |-> Nothing]
         ELSE [status |-> 200, detail |-> "", body |-> record]

\* undo_image
Undo(list, image_id) ==
    LET record == Find(list, image_id) IN
    IF record = Nothing
    THEN [status |-> 404, detail |-> "Image not found", body |-> Nothing]
    ELSE LET parent_id == GetId(record[1], "parent_id") IN
         IF parent_id = NoId
         THEN [status |-> 400, detail |-> "Nothing to undo", body |-> Nothing]
         ELSE LET parent == Find(list, parent_id) IN
              IF parent = Nothing
              THEN [status |-> 404, detail |-> "Parent image not found",
                    body |-> Nothing]
              ELSE [status |-> 200, detail |-> "", body |-> parent]

\* redo_image
Redo(list, image_id) ==
    LET record == Find(list, image_id) IN
    IF record = Nothing
    THEN [status |-> 404, detail |-> "Image not found", body |-> Nothing]
    ELSE LET children == ChildrenOf(list, image_id) IN
         IF children = <<>>
         THEN [status |-> 400, detail |-> "Nothing to redo", body |-> Nothing]
         ELSE [status |-> 200, detail |-> "",
               body |-> <<SortDesc(<<>>, children)[1]>>]

\* r.get(k) as a condition, for a marker the handlers set to True.
Flag(r, k) == k \in DOMAIN r /\ r[k] = TRUE

\* The elif chain of get_image_history with its branches for "adjusted" and
\* "outpainted" exchanged.
EditType_AdjustFirst(r, i) ==
    IF Flag(r, "adjusted") THEN "adjust"
    ELSE IF Flag(r, "outpainted") THEN "outpaint"
    ELSE IF Flag(r, "upscaled") THEN "upscale"
    ELSE IF Flag(r, "background_removed") THEN "background_removal"
    ELSE IF Flag(r, "style_transfer") THEN "style_transfer"
    ELSE IF Flag(r, "watermarked") THEN "watermark"
    ELSE IF GetId(r, "parent_id") # NoId /\ i > 0 THEN "refine"
    ELSE "original"

\* edit_type of the chain entry r at the 0-based position i.
EditType(r, i) ==
    IF Flag(r, "outpainted") THEN "outpaint"
    ELSE IF Flag(r, "adjusted") THEN "adjust"
    ELSE IF Flag(r, "upscaled") THEN "upscale"
    ELSE IF Flag(r, "background_removed") THEN "background_removal"
    ELSE IF Flag(r, "style_transfer") THEN "style_transfer"
    ELSE IF Flag(r, "watermarked") THEN "watermark"
    ELSE IF GetId(r, "parent_id") # NoId /\ i > 0 THEN "refine"
    ELSE "original"

\* The keys get_image_history copies into an entry's params.
ParamKeys == {"adjustments", "upscale_factor", "outpaint_directions",
              "outpaint_amount", "style_strength", "watermark_text"}

\* The while loop of get_image_history: chain is youngest first while it
\* grows. The loop has no bound of its own; a walk still running after
\* `fuel` rounds has met a record twice and never ends (done = FALSE).
RECURSIVE WalkBack(_, _, _, _)
WalkBack(list, chain, current, fuel) ==
    IF GetId(current, "parent_id") = NoId
    THEN [done |-> TRUE, chain |-> chain]
    ELSE LET parent == Find(list, current.parent_id) IN
         IF parent = Nothing
         THEN [done |-> TRUE, chain |-> chain]
         ELSE IF fuel = 0
         THEN [done |-> FALSE, chain |-> chain]
         ELSE WalkBack(list, Append(chain, parent[1]), parent[1], fuel - 1)

\* chain.reverse()
Reverse(s) == [k \in 1..Len(s) |-> s[Len(s) + 1 - k]]

\* The walk without chain.reverse().
RootChain_NotReversed(list, record) ==
    LET w == WalkBack(list, <<record>>, record, Len(list)) IN
    [done |-> w.done, chain |-> w.chain]

\* The chain of get_image_history, oldest first.
RootChain(list, record) ==
    LET w == WalkBack(list, <<record>>, record, Len(list)) IN
    [done |-> w.done, chain |-> Reverse(w.chain)]

\* next((i for i, r in enumerate(chain) if r["id"] == image_id),
\*      len(chain) - 1), 0-based.
CurrentIndex(chain, image_id) ==
    IF \E k \in 1..Len(chain) : chain[k].id = image_id
    THEN (CHOOSE k \in 1..Len(chain) :
             /\ chain[k].id = image_id
             /\ \A h \in 1..(k - 1) : chain[h].id # image_id) - 1
    ELSE Len(chain) - 1

\* "can_undo" computed as current_index >= 0.
CanUndo_AtRoot(current_index) == current_index >= 0

\* "can_undo": current_index > 0
CanUndo(current_index) == current_index > 0

\* get_image_history
History(list, image_id) ==
    LET record == Find(list, image_id) IN
    IF record = Nothing
    THEN [status |-> 404, detail |-> "Image not found", body |-> Nothing]
    ELSE LET w == RootChain(list, record[1])
             chain == w.chain
             current_index == CurrentIndex(chain, image_id)
             history ==
                 [k \in 1..Len(chain) |->
                     [id |-> chain[k].id,
                      edit_type |-> EditType(chain[k], k - 1),
                      timestamp |-> CreatedAt(chain[k]),
                      params |-> [key \in DOMAIN chain[k] \cap ParamKeys |->
                                     chain[k][key]]]]
             children == ChildrenOf(list, image_id) IN
         IF ~w.done
         THEN [status |-> 0, detail |-> "the walk does not end",
               body |-> Nothing]
         ELSE [status |-> 200, detail |-> "",
               body |-> <<[image_id |-> image_id,
                           history |-> history,
                           current_index |-> current_index,
                           can_undo |-> CanUndo(current_index),
                           can_redo |-> Len(children) > 0]>>]

RespNone == [op |-> None, arg |-> NoId, status |-> 0, detail |-> "",
             body |-> Nothing]

Answer(op, arg, r) ==
    [op |-> op, arg |-> arg, status |-> r.status, detail |-> r.detail,
     body |-> r.body]

Lin_Undo(image_id) ==
    /\ resp' = Answer("undo", image_id, Undo(db, image_id))
    /\ UNCHANGED <<db, now, files>>
    /\ UNCHANGED OutsideLineage

Lin_Redo(image_id) ==
    /\ resp' = Answer("redo", image_id, Redo(db, image_id))
    /\ UNCHANGED <<db, now, files>>
    /\ UNCHANGED OutsideLineage

Lin_History(image_id) ==
    /\ resp' = Answer("history", image_id, History(db, image_id))
    /\ UNCHANGED <<db, now, files>>
    /\ UNCHANGED OutsideLineage

\* utcnow() moves on between two requests.
Lin_Tick ==
    /\ now < MaxClock
    /\ now' = now + 1
    /\ UNCHANGED <<db, resp, files>>
    /\ UNCHANGED OutsideLineage

\* The file _generate_single leaves for a record of 1024x1024: whole, or
\* as the adapter wrote it when postprocess_image raised on it. The files
\* of the lineage store are numbered like its records.
LineageFiles == {ImageFile(<<1024, 1024>>, intact) : intact \in BOOLEAN}

\* generate with count = 1: the chain answers or every model fails.
Lin_Generate ==
    /\ Len(db) < MaxAssets
    /\ \E ok \in BOOLEAN :
          IF ok
          THEN LET record == [id |-> MaxId(db) + 1, size |-> "1024x1024",
                              created_at |-> IsoFormat(now)] IN
               /\ db' = <<record>> \o db
               /\ \E file \in LineageFiles : files' = Append(files, file)
               /\ resp' = Answer("generate", NoId,
                                 [status |-> 200, detail |-> "",
                                  body |-> <<record>>])
          ELSE /\ db' = db
               /\ files' = files
               /\ resp' = Answer("generate", NoId,
                                 [status |-> 500,
                                  detail |-> "Image generation failed",
                                  body |-> Nothing])
    /\ UNCHANGED now
    /\ UNCHANGED OutsideLineage

\* refine: the prompt merge and the chain may each fail; else a child record
\* goes to the front of the list.
Lin_Refine(image_id) ==
    /\ Len(db) < MaxAssets
    /\ LET parent == Find(db, image_id) IN
       IF parent = Nothing
       THEN /\ db' = db
            /\ files' = files
            /\ resp' = Answer("refine", image_id,
                              [status |-> 404,
                               detail |-> "Parent image not found",
                               body |-> Nothing])
       ELSE \E chatOk \in BOOLEAN, genOk \in BOOLEAN :
               IF ~chatOk
               THEN /\ db' = db
                    /\ files' = files
                    /\ resp' = Answer("refine", image_id,
                                      [status |-> 500,
                                       detail |-> "Prompt merging failed",
                                       body |-> Nothing])
               ELSE IF ~genOk
               THEN /\ db' = db
                    /\ files' = files
                    /\ resp' = Answer("refine", image_id,
                                      [status |-> 500,
                                       detail |-> "Refinement generation failed",
                                       body |-> Nothing])
               ELSE LET record == [id |-> MaxId(db) + 1,
                                   parent_id |-> parent[1].id,
                                   size |-> parent[1].size,
                                   created_at |-> IsoFormat(now)] IN
                    /\ db' = <<record>> \o db
                    /\ \E file \in LineageFiles :
                          files' = Append(files, file)
                    /\ resp' = Answer("refine", image_id,
                                      [status |-> 200, detail |-> "",
                                       body |-> <<record>>])
    /\ UNCHANGED now
    /\ UNCHANGED OutsideLineage

\* valid_positions of watermark_image.
WatermarkPositions ==
    {"center", "bottom-right", "bottom-left", "top-right", "top-left",
     "tiled"}

\* The texts, positions and opacities (in hundredths) of the watermark
\* requests of the lineage store.
LineageTexts == {"w"}
LineagePositions == {"bottom-right", "middle"}
LineageOpacities == {30}

\* watermark_image: a local transform; the file of the record is opened
\* and converted outside any try; the child record carries the text, the
\* position and the opacity of the request and goes to the end of the list
\* the handler loaded, its file is the composite Pillow saved.
Lin_Watermark(image_id, text, position, opacity) ==
    /\ Len(db) < MaxAssets
    /\ LET record == Find(db, image_id) IN
       IF record = Nothing
       THEN /\ db' = db
            /\ files' = files
            /\ resp' = Answer("watermark", image_id,
                              [status |-> 404, detail |-> "Image not found",
                               body |-> Nothing])
       ELSE IF position \notin WatermarkPositions
       THEN /\ db' = db
            /\ files' = files
            /\ resp' = Answer("watermark", image_id,
                              [status |-> 400, detail |-> "Invalid position",
                               body |-> Nothing])
       ELSE IF ~files[record[1].id].intact
       THEN /\ db' = db
            /\ files' = files
            /\ resp' = Answer("watermark", image_id, Unhandled)
       ELSE LET new_record == [id |-> MaxId(db) + 1, parent_id |-> image_id,
                               size |-> IF "size" \in DOMAIN record[1]
                                        THEN record[1].size
                                        ELSE "1024x1024",
                               watermarked |-> TRUE,
                               watermark_text |-> text,
                               watermark_position |-> position,
                               watermark_opacity |-> opacity,
                               created_at |-> IsoFormat(now)] IN
            /\ db' = Append(db, new_record)
            /\ files' = Append(files,
                               ImageFile(files[record[1].id].dims, TRUE))
            /\ resp' = Answer("watermark", image_id,
                              [status |-> 200, detail |-> "",
                               body |-> <<new_record>>])
    /\ UNCHANGED now
    /\ UNCHANGED OutsideLineage

\* Ids a request may name: those in use and one that is not.
RequestIds == 1..(MaxAssets + 1)

NextLineage ==
    \/ Lin_Tick
    \/ Lin_Generate
    \/ \E id \in RequestIds : Lin_Refine(id)
    \/ \E id \in RequestIds, text \in LineageTexts,
          position \in LineagePositions, opacity \in LineageOpacities :
          Lin_Watermark(id, text, position, opacity)
    \/ \E id \in RequestIds : Lin_Undo(id)
    \/ \E id \in RequestIds : Lin_Redo(id)
    \/ \E id \in RequestIds : Lin_History(id)

(***************************************************************************)
(* The edit_type label of get_image_history, entry by entry                *)
(***************************************************************************)

\* The markers the elif chain of get_image_history reads.
MarkerKeys == {"outpainted", "adjusted", "upscaled", "background_removed",
               "style_transfer", "watermarked"}

LabIdle == [state |-> "idle", r |-> [id |-> 1], i |-> 0, edit_type |-> None]

\* A record of images_db.json with the markers S, with or without parent_id.
\* The handlers of this version set one marker per record; the file may hold
\* records with several.
MarkedRecord(S, parent) ==
    [k \in {"id"} \cup S \cup (IF parent THEN {"parent_id"} ELSE {}) |->
        IF k = "id" THEN 2 ELSE IF k = "parent_id" THEN 1 ELSE TRUE]

\* One round of the labelling loop: the entry at position i gets its label.
\* An entry after the first has a parent_id (the walk reached it from one).
Lab_Label(S, parent, i) ==
    /\ parent \/ i = 0
    /\ lab' = [state |-> "labelled", r |-> MarkedRecord(S, parent), i |-> i,
               edit_type |-> EditType(MarkedRecord(S, parent), i)]
    /\ UNCHANGED <<norm, msk, enr>>
    /\ UNCHANGED <<ex, adapterOk, agg, jobs, units, runner, jobs_db,
                   runner_db, db, now, resp, files, reading,
                   Handlers>>

NextLabel ==
    \E S \in SUBSET MarkerKeys, parent \in BOOLEAN, i \in 0..1 :
        Lab_Label(S, parent, i)

(***************************************************************************)
(* postprocess_image, on the pixel dimensions of the image                 *)
(***************************************************************************)

\* The text f"{w}x{h}" of a size, and map(int, size.split("x")).
SizeText(w, h) == <<w, "x", h>>
ParseSize(text) == <<text[1], text[3]>>

VALID_SIZES == {SizeText(1024, 1024), SizeText(1024, 1536),
                SizeText(1536, 1024)}

Abs(x) == IF x < 0 THEN 0 - x ELSE x

\* A tolerance of one hundredth of the target ratio.
WithinTolerance_Relative(w, h, width, height) ==
    ~(100 * Abs(w * height - width * h) > width * h)

\* Significant bits of a Python float (an IEEE 754 double).
MantissaBits == 53

\* floor(log2(v)) of an int v >= 1.
Log2(v) == CHOOSE b \in 0..30 : v \div 2^b = 1

\* The element of a set of one: names a value once where it is used often.
Only(S) == CHOOSE v \in S : TRUE

\* p / q of two ints below 2^16, exactly to 60 binary places: the whole
\* part, the places in two halves of 30, and whether anything is left.
LongDivision(p, q) ==
    LET r0 == p % q
        r15 == (r0 * 2^15) % q
        r30 == (r15 * 2^15) % q
        r45 == (r30 * 2^15) % q
        r60 == (r45 * 2^15) % q IN
    [int |-> p \div q,
     hi |-> ((r0 * 2^15) \div q) * 2^15 + (r15 * 2^15) \div q,
     lo |-> ((r30 * 2^15) \div q) * 2^15 + (r45 * 2^15) \div q,
     rest |-> r60 # 0]

\* The places of d that a float has no room for: those below the
\* MantissaBits significant bits counted from the leading one.
DroppedBits(d) ==
    (IF d.int > 0 THEN 60 + Log2(d.int) ELSE 30 + Log2(d.hi))
        - (MantissaBits - 1)

\* d without its last `drop` places, rounded to nearest, ties to even.
RoundAt(d, drop) ==
    LET kept == (d.lo \div 2^drop) * 2^drop
        half == (d.lo \div 2^(drop - 1)) % 2 = 1
        above == d.rest \/ d.lo % 2^(drop - 1) # 0
        odd == (d.lo \div 2^drop) % 2 = 1
        lo_up == IF half /\ (above \/ odd) THEN kept + 2^drop ELSE kept
        hi_up == d.hi + lo_up \div 2^30 IN
    [int |-> d.int + hi_up \div 2^30, hi |-> hi_up % 2^30,
     lo |-> lo_up % 2^30]

\* p / q of two ints below 2^16 with a quotient between 1/128 and 128, as
\* Python computes it: the quotient rounded to MantissaBits significant
\* bits, to nearest, ties to even. The float is written in units of 2^-60
\* (every double in that range is a whole number of them) as
\* int * 2^60 + hi * 2^30 + lo.
FloatDiv(p, q) ==
    Only({Only({RoundAt(d, drop) : drop \in {DroppedBits(d)}}) :
             d \in {LongDivision(p, q)}})

\* x + y of two floats in units of 2^-60, exactly.
FloatSum(x, y) ==
    LET lo == x.lo + y.lo
        hi == x.hi + y.hi + lo \div 2^30 IN
    [int |-> x.int + y.int + hi \div 2^30, hi |-> hi % 2^30, lo |-> lo % 2^30]

\* x > y
FloatGreater(x, y) ==
    \/ x.int > y.int
    \/ x.int = y.int /\ x.hi > y.hi
    \/ x.int = y.int /\ x.hi = y.hi /\ x.lo > y.lo

\* abs(img_ratio - target_ratio) > 0.01 on the floats w / h and
\* width / height. The difference of two floats this close is a float, so
\* the test is a > b + 0.01 or b > a + 0.01 on the exact values.
RatioDiffExceeds(w, h, width, height) ==
    \E a \in {FloatDiv(w, h)}, b \in {FloatDiv(width, height)},
       c \in {FloatDiv(1, 100)} :
       \E above \in {FloatSum(b, c)}, below \in {FloatSum(a, c)} :
          FloatGreater(a, above) \/ FloatGreater(b, below)

\* not abs(img_ratio - target_ratio) > 0.01
WithinTolerance(w, h, width, height) ==
    ~RatioDiffExceeds(w, h, width, height)

\* postprocess_image saving the image as it is when no crop was needed.
PostprocessImage_ResizeOnlyAfterCrop(dims, target_size) ==
    LET width == ParseSize(target_size)[1]
        height == ParseSize(target_size)[2]
        w == dims[1]
        h == dims[2] IN
    IF WithinTolerance(w, h, width, height)
    THEN [box |-> <<0, 0, w, h>>, cropped |-> FALSE, resized |-> FALSE,
          size |-> <<w, h>>]
    ELSE [box |-> <<0, 0, w, h>>, cropped |-> TRUE, resized |-> TRUE,
          size |-> <<width, height>>]

\* postprocess_image on an image of dims = <<w, h>>: the crop box
\* <<left, upper, right, lower>>, and the size of the image it saves.
\* int(h * target_ratio) is (h * width) \div height, int(w / target_ratio)
\* is (w * height) \div width.
PostprocessImage(dims, target_size) ==
    LET width == ParseSize(target_size)[1]
        height == ParseSize(target_size)[2]
        w == dims[1]
        h == dims[2]
        wider == w * height > width * h
        new_w == (h * width) \div height
        left == (w - new_w) \div 2
        new_h == (w * height) \div width
        top == (h - new_h) \div 2
        Box(cropped) == IF ~cropped THEN <<0, 0, w, h>>
                        ELSE IF wider THEN <<left, 0, left + new_w, h>>
                        ELSE <<0, top, w, top + new_h>>
        Saved(cropped, box) ==
            LET img_size == <<box[3] - box[1], box[4] - box[2]>> IN
            [box |-> box, cropped |-> cropped,
             resized |-> img_size # <<width, height>>,
             size |-> IF img_size # <<width, height>> THEN <<width, height>>
                      ELSE img_size] IN
    Only({Only({Saved(cropped, box) : box \in {Box(cropped)}}) :
             cropped \in {~WithinTolerance(w, h, width, height)}})

\* Widths and heights of the images handed to postprocess_image.
SourceSides == {512, 768, 1000, 1008, 1010, 1024, 1030, 1035, 1344, 1512,
                1536, 1550, 2010, 2048}

\* The sizes the callers ask for: the valid sizes, and sizes of upscaled
\* and outpainted parents that inpaint passes on.
TargetSizes == VALID_SIZES \cup {SizeText(2048, 2048), SizeText(2048, 1024),
                                 SizeText(3072, 1024)}

NormIdle == [state |-> "idle", dims |-> <<1024, 1024>>,
             target_size |-> SizeText(1024, 1024),
             out |-> [box |-> <<0, 0, 1024, 1024>>, cropped |-> FALSE,
                      resized |-> FALSE, size |-> <<1024, 1024>>]]

Norm_Postprocess(dims, target_size) ==
    /\ norm' = [state |-> "saved", dims |-> dims, target_size |-> target_size,
                out |-> PostprocessImage(dims, target_size)]
    /\ UNCHANGED <<lab, msk, enr>>
    /\ UNCHANGED <<ex, adapterOk, agg, jobs, units, runner, jobs_db,
                   runner_db, db, now, resp, files, reading,
                   Handlers>>

NextNorm ==
    \E w \in SourceSides, h \in SourceSides, target_size \in TargetSizes :
        Norm_Postprocess(<<w, h>>, target_size)

(***************************************************************************)
(* The handlers that write image records and their rasters                 *)
(***************************************************************************)

\* The files an adapter may write for a request of `size`: of that size or
\* of the model's own 1024 by 1024, whole or damaged.
AdapterFiles(size) ==
    {ImageFile(d, i) : d \in {ParseSize(size), <<1024, 1024>>},
                       i \in BOOLEAN}

\* _generate_single and the fallbacks of inpaint end with a file, or with
\* every model having failed (Nothing). generate_image refuses a size that is
\* not valid, whatever the model.
Generated(size) ==
    IF size \in VALID_SIZES
    THEN {Nothing} \cup {<<f>> : f \in AdapterFiles(size)}
    ELSE {Nothing}

\* try: postprocess_image(path, size) except Exception: pass
TryPostprocess(file, size) ==
    IF file.intact
    THEN ImageFile(PostprocessImage(file.dims, size).size, TRUE)
    ELSE file

\* parent.get("size", "1024x1024")
GetSize(r) == IF "size" \in DOMAIN r THEN r.size ELSE SizeText(1024, 1024)

\* uuid.uuid4(): the model numbers the files of IMAGES_DIR as they come.
NewId == Len(files) + 1

\* What the store handlers leave alone.
OutsideUpload == <<ex, adapterOk, agg, jobs, units, runner, jobs_db,
                   runner_db, now, Helpers, Handlers>>
OutsideStore == <<reading, OutsideUpload>>

\* The files the store holds at most when a handler other than generate
\* adds one.
MaxStored == 2

\* The sizes a generate request may name: the valid ones and another.
RequestSizes == VALID_SIZES \cup {SizeText(2048, 2048)}

\* generate with count = 1
St_Generate(size) ==
    /\ Len(files) < MaxAssets
    /\ IF size \notin VALID_SIZES
       THEN /\ resp' = Answer("generate", NoId,
                              Reply(400, "Invalid size", Nothing))
            /\ UNCHANGED <<db, files>>
       ELSE \E g \in Generated(size) :
               IF g = Nothing
               THEN /\ resp' = Answer("generate", NoId,
                                      Reply(500, "Image generation failed",
                                            Nothing))
                    /\ UNCHANGED <<db, files>>
               ELSE LET record == [id |-> NewId, size |-> size,
                                   created_at |-> IsoFormat(now)] IN
                    /\ files' = Append(files, TryPostprocess(g[1], size))
                    /\ db' = <<record>> \o db
                    /\ resp' = Answer("generate", NoId,
                                      Reply(200, "", <<record>>))
    /\ UNCHANGED OutsideStore

\* The uploads of the model: how many requests may wait in `await
\* <upload>.read()` at once, the content types a part may state, the
\* strengths (in tenths) a style request may carry, and what the bytes read
\* turn out to be.
MaxReading == 2
UploadSizes == {SizeText(1536, 1024), SizeText(2048, 2048)}
ContentTypes == {"image/png", "image/jpeg", "image/gif"}
RequestStrengths == {5, 12}
UploadOutcomes == {"image", "too_large", "not_an_image"}

\* generate_with_style up to `await style_image.read()`: the checks of the
\* size, the strength and the content type; nothing is read or written.
St_StyleTransfer(size, strength, content_type) ==
    /\ Len(reading) < MaxReading
    /\ Len(files) < MaxStored
    /\ IF size \notin VALID_SIZES
       THEN /\ resp' = Answer("generate_with_style", NoId,
                              Reply(400, "Invalid size", Nothing))
            /\ UNCHANGED reading
       ELSE IF ~(0 <= strength /\ strength <= 10)
       THEN /\ resp' = Answer("generate_with_style", NoId,
                              Reply(400,
                                    "Strength must be between 0.0 and 1.0",
                                    Nothing))
            /\ UNCHANGED reading
       ELSE IF content_type \notin {"image/png", "image/jpeg"}
       THEN /\ resp' = Answer("generate_with_style", NoId,
                              Reply(400, "Style image must be PNG or JPEG",
                                    Nothing))
            /\ UNCHANGED reading
       ELSE /\ reading' = Append(reading, [op |-> "generate_with_style",
                                           size |-> size])
            /\ UNCHANGED resp
    /\ UNCHANGED <<db, files>>
    /\ UNCHANGED OutsideUpload

\* generate_with_style from the upload on: the 10MB limit, the bytes
\* written as they came (the handler never opens them, so an upload that
\* is no image goes the way of one that is), then _generate_single and the
\* record, which carries style_transfer and no parent_id, at the front of
\* the list loaded now.
St_StyleTransferResume(i, upload) ==
    /\ i \in 1..Len(reading)
    /\ reading[i].op = "generate_with_style"
    /\ Len(files) < MaxStored
    /\ reading' = SubSeq(reading, 1, i - 1)
                   \o SubSeq(reading, i + 1, Len(reading))
    /\ LET size == reading[i].size IN
       IF upload = "too_large"
       THEN /\ resp' = Answer("generate_with_style", NoId,
                              Reply(400, "Style image must be under 10MB",
                                    Nothing))
            /\ UNCHANGED <<db, files>>
       ELSE \E g \in Generated(size) :
               IF g = Nothing
               THEN /\ resp' = Answer("generate_with_style", NoId,
                                      Reply(500,
                                            "Style transfer generation failed",
                                            Nothing))
                    /\ UNCHANGED <<db, files>>
               ELSE LET record == [id |-> NewId, size |-> size,
                                   style_transfer |-> TRUE,
                                   created_at |-> IsoFormat(now)] IN
                    /\ files' = Append(files, TryPostprocess(g[1], size))
                    /\ db' = <<record>> \o db
                    /\ resp' = Answer("generate_with_style", NoId,
                                      Reply(200, "", <<record>>))
    /\ UNCHANGED OutsideUpload

\* generate_from_image up to `await reference.read()`: the checks of the
\* size and the content type.
St_FromImage(size, content_type) ==
    /\ Len(reading) < MaxReading
    /\ Len(files) < MaxStored
    /\ IF size \notin VALID_SIZES
       THEN /\ resp' = Answer("generate_from_image", NoId,
                              Reply(400, "Invalid size", Nothing))
            /\ UNCHANGED reading
       ELSE IF content_type \notin {"image/png", "image/jpeg"}
       THEN /\ resp' = Answer("generate_from_image", NoId,
                              Reply(400,
                                    "Reference image must be PNG or JPEG",
                                    Nothing))
            /\ UNCHANGED reading
       ELSE /\ reading' = Append(reading, [op |-> "generate_from_image",
                                           size |-> size])
            /\ UNCHANGED resp
    /\ UNCHANGED <<db, files>>
    /\ UNCHANGED OutsideUpload

\* generate_from_image from the upload on: the 10MB limit, Image.open of the
\* bytes (outside any try), edit_image and after it the chain of
\* generate_image, postprocess_image in a try, and the record, which carries
\* reference_filename and no parent_id, at the front of the list loaded now.
St_FromImageResume(i, upload) ==
    /\ i \in 1..Len(reading)
    /\ reading[i].op = "generate_from_image"
    /\ Len(files) < MaxStored
    /\ reading' = SubSeq(reading, 1, i - 1)
                   \o SubSeq(reading, i + 1, Len(reading))
    /\ LET size == reading[i].size IN
       IF upload = "too_large"
       THEN /\ resp' = Answer("generate_from_image", NoId,
                              Reply(400,
                                    "Reference image must be under 10MB",
                                    Nothing))
            /\ UNCHANGED <<db, files>>
       ELSE IF upload = "not_an_image"
       THEN /\ resp' = Answer("generate_from_image", NoId, Unhandled)
            /\ UNCHANGED <<db, files>>
       ELSE \E g \in Generated(size) :
               IF g = Nothing
               THEN /\ resp' = Answer("generate_from_image", NoId,
                                      Reply(500, "Image generation failed",
                                            Nothing))
                    /\ UNCHANGED <<db, files>>
               ELSE LET record == [id |-> NewId, size |-> size,
                                   reference_filename |-> <<"ref_", ".png">>,
                                   created_at |-> IsoFormat(now)] IN
                    /\ files' = Append(files, TryPostprocess(g[1], size))
                    /\ db' = <<record>> \o db
                    /\ resp' = Answer("generate_from_image", NoId,
                                      Reply(200, "", <<record>>))
    /\ UNCHANGED OutsideUpload

\* refine
St_Refine(image_id) ==
    /\ Len(files) < MaxStored
    /\ LET parent == Find(db, image_id) IN
       IF parent = Nothing
       THEN /\ resp' = Answer("refine", image_id,
                              Reply(404, "Parent image not found", Nothing))
            /\ UNCHANGED <<db, files>>
       ELSE \E chatOk \in BOOLEAN :
            \E g \in Generated(GetSize(parent[1])) :
               IF ~chatOk
               THEN /\ resp' = Answer("refine", image_id,
                                      Reply(500, "Prompt merging failed",
                                            Nothing))
                    /\ UNCHANGED <<db, files>>
               ELSE IF g = Nothing
               THEN /\ resp' = Answer("refine", image_id,
                                      Reply(500,
                                            "Refinement generation failed",
                                            Nothing))
                    /\ UNCHANGED <<db, files>>
               ELSE LET record == [id |-> NewId,
                                   parent_id |-> parent[1].id,
                                   size |-> GetSize(parent[1]),
                                   created_at |-> IsoFormat(now)] IN
                    /\ files' = Append(files,
                                       TryPostprocess(g[1],
                                                      GetSize(parent[1])))
                    /\ db' = <<record>> \o db
                    /\ resp' = Answer("refine", image_id,
                                      Reply(200, "", <<record>>))
    /\ UNCHANGED OutsideStore

\* The size inpaint asks the adapters for.
ApiSize(parent_size) ==
    LET w == ParseSize(parent_size)[1]
        h == ParseSize(parent_size)[2] IN
    IF parent_size \in VALID_SIZES THEN parent_size
    ELSE IF w > h THEN SizeText(1536, 1024)
    ELSE IF h > w THEN SizeText(1024, 1536)
    ELSE SizeText(1024, 1024)

\* inpaint: the record and the raster (the mask is followed in SpecMask).
St_Inpaint(image_id, maskOk) ==
    /\ Len(files) < MaxStored
    /\ LET parent == Find(db, image_id) IN
       IF parent = Nothing
       THEN /\ resp' = Answer("inpaint", image_id,
                              Reply(404, "Parent image not found", Nothing))
            /\ UNCHANGED <<db, files>>
       ELSE IF ~maskOk
       THEN /\ resp' = Answer("inpaint", image_id,
                              Reply(400, "Invalid mask", Nothing))
            /\ UNCHANGED <<db, files>>
       ELSE IF ~files[parent[1].id].intact
       THEN /\ resp' = Answer("inpaint", image_id, Unhandled)
            /\ UNCHANGED <<db, files>>
       ELSE LET parent_size == GetSize(parent[1]) IN
            \E g \in {Nothing} \cup
                     {<<f>> : f \in AdapterFiles(ApiSize(parent_size))} :
               IF g = Nothing
               THEN /\ resp' = Answer("inpaint", image_id,
                                      Reply(500, "Inpainting failed",
                                            Nothing))
                    /\ UNCHANGED <<db, files>>
               ELSE LET record == [id |-> NewId,
                                   parent_id |-> parent[1].id,
                                   size |-> parent_size,
                                   inpainted |-> TRUE,
                                   created_at |-> IsoFormat(now)] IN
                    /\ files' = Append(files,
                                       TryPostprocess(g[1], parent_size))
                    /\ db' = <<record>> \o db
                    /\ resp' = Answer("inpaint", image_id,
                                      Reply(200, "", <<record>>))
    /\ UNCHANGED OutsideStore

\* upscale: scale is an int from 2 to 4 by the request model.
St_Upscale(image_id, scale) ==
    /\ Len(files) < MaxStored
    /\ LET parent == Find(db, image_id) IN
       IF scale \notin {2, 4}
       THEN /\ resp' = Answer("upscale", image_id,
                              Reply(400, "Scale must be 2 or 4", Nothing))
            /\ UNCHANGED <<db, files>>
       ELSE IF parent = Nothing
       THEN /\ resp' = Answer("upscale", image_id,
                              Reply(404, "Image not found", Nothing))
            /\ UNCHANGED <<db, files>>
       ELSE IF ~files[parent[1].id].intact
       THEN /\ resp' = Answer("upscale", image_id, Unhandled)
            /\ UNCHANGED <<db, files>>
       ELSE LET img == files[parent[1].id]
                new_w == img.dims[1] * scale
                new_h == img.dims[2] * scale
                record == [id |-> NewId, parent_id |-> parent[1].id,
                           size |-> SizeText(new_w, new_h),
                           upscaled |-> TRUE, upscale_factor |-> scale,
                           created_at |-> IsoFormat(now)] IN
            /\ files' = Append(files, ImageFile(<<new_w, new_h>>, TRUE))
            /\ db' = <<record>> \o db
            /\ resp' = Answer("upscale", image_id, Reply(200, "", <<record>>))
    /\ UNCHANGED OutsideStore

\* adjust_image: the filters keep the pixel dimensions of the parent's file.
St_Adjust(image_id) ==
    /\ Len(files) < MaxStored
    /\ LET parent == Find(db, image_id) IN
       IF parent = Nothing
       THEN /\ resp' = Answer("adjust", image_id,
                              Reply(404, "Image not found", Nothing))
            /\ UNCHANGED <<db, files>>
       ELSE IF ~files[parent[1].id].intact
       THEN /\ resp' = Answer("adjust", image_id, Unhandled)
            /\ UNCHANGED <<db, files>>
       ELSE LET img == files[parent[1].id]
                record == [id |-> NewId, parent_id |-> parent[1].id,
                           size |-> GetSize(parent[1]),
                           adjusted |-> TRUE,
                           created_at |-> IsoFormat(now)] IN
            /\ files' = Append(files, ImageFile(img.dims, TRUE))
            /\ db' = <<record>> \o db
            /\ resp' = Answer("adjust", image_id, Reply(200, "", <<record>>))
    /\ UNCHANGED OutsideStore

\* remove_background: Image.open and rembg run in one try; the result has
\* the pixel dimensions of the parent's file, the record the parent's
\* declared size, and it goes to the front of the list loaded anew.
St_RemoveBackground(image_id, rembgOk) ==
    /\ Len(files) < MaxStored
    /\ LET parent == Find(db, image_id) IN
       IF parent = Nothing
       THEN /\ resp' = Answer("remove_background", image_id,
                              Reply(404, "Image not found", Nothing))
            /\ UNCHANGED <<db, files>>
       ELSE IF ~files[parent[1].id].intact \/ ~rembgOk
       THEN /\ resp' = Answer("remove_background", image_id,
                              Reply(500, "Background removal failed",
                                    Nothing))
            /\ UNCHANGED <<db, files>>
       ELSE LET img == files[parent[1].id]
                record == [id |-> NewId, parent_id |-> parent[1].id,
                           size |-> GetSize(parent[1]),
                           background_removed |-> TRUE,
                           created_at |-> IsoFormat(now)] IN
            /\ files' = Append(files, ImageFile(img.dims, TRUE))
            /\ db' = <<record>> \o db
            /\ resp' = Answer("remove_background", image_id,
                              Reply(200, "", <<record>>))
    /\ UNCHANGED OutsideStore

\* generate_depth_map: the map has the pixel dimensions of the source file,
\* the record states them as its size, and it goes to the end of the list
\* loaded at the start. Image.open(...).convert is outside any try.
St_DepthMap(image_id) ==
    /\ Len(files) < MaxStored
    /\ LET record == Find(db, image_id) IN
       IF record = Nothing
       THEN /\ resp' = Answer("depth_map", image_id,
                              Reply(404, "Image not found", Nothing))
            /\ UNCHANGED <<db, files>>
       ELSE IF ~files[record[1].id].intact
       THEN /\ resp' = Answer("depth_map", image_id, Unhandled)
            /\ UNCHANGED <<db, files>>
       ELSE LET img == files[record[1].id]
                w == img.dims[1]
                h == img.dims[2]
                new_record == [id |-> NewId, size |-> SizeText(w, h),
                               created_at |-> IsoFormat(now),
                               parent_id |-> image_id,
                               edit_type |-> "depth_map"] IN
            /\ files' = Append(files, ImageFile(<<w, h>>, TRUE))
            /\ db' = Append(db, new_record)
            /\ resp' = Answer("depth_map", image_id,
                              Reply(200, "", <<new_record>>))
    /\ UNCHANGED OutsideStore

PRODUCT_SCENES == {"studio", "outdoor", "lifestyle", "flat-lay", "holiday"}

\* The scenes a product_photo request may name.
RequestScenes == {"studio", "beach"}

\* generate_image(model="gemini-image", size=..., output=...) called outside
\* any try: a file, or an exception (of the adapter, or the ValueError of a
\* size that is not valid).
GeminiImage(size) == Generated(size)

\* product_photo: chat and generate_image are called outside any try,
\* postprocess_image inside one; the record names the image asked about as
\* its parent, states 1024x1024, and goes to the end of the list loaded at
\* the start.
St_ProductPhoto(image_id, scene, chatOk) ==
    /\ Len(files) < MaxStored
    /\ LET record == Find(db, image_id) IN
       IF scene \notin PRODUCT_SCENES
       THEN /\ resp' = Answer("product_photo", image_id,
                              Reply(400, "Invalid scene", Nothing))
            /\ UNCHANGED <<db, files>>
       ELSE IF record = Nothing
       THEN /\ resp' = Answer("product_photo", image_id,
                              Reply(404, "Image not found", Nothing))
            /\ UNCHANGED <<db, files>>
       ELSE IF ~chatOk
       THEN /\ resp' = Answer("product_photo", image_id, Unhandled)
            /\ UNCHANGED <<db, files>>
       ELSE \E g \in GeminiImage(SizeText(1024, 1024)) :
               IF g = Nothing
               THEN /\ resp' = Answer("product_photo", image_id, Unhandled)
                    /\ UNCHANGED <<db, files>>
               ELSE LET new_record ==
                            [id |-> NewId, size |-> SizeText(1024, 1024),
                             created_at |-> IsoFormat(now),
                             parent_id |-> image_id,
                             edit_type |-> "product_photo",
                             scene |-> scene] IN
                    /\ files' = Append(files,
                                       TryPostprocess(g[1],
                                                      SizeText(1024, 1024)))
                    /\ db' = Append(db, new_record)
                    /\ resp' = Answer("product_photo", image_id,
                                      Reply(200, "", <<new_record>>))
    /\ UNCHANGED OutsideStore

\* replace_object with a target and a replacement that are not blank: as
\* product_photo, with the declared size of the record asked about.
St_ReplaceObject(image_id, chatOk) ==
    /\ Len(files) < MaxStored
    /\ LET record == Find(db, image_id) IN
       IF record = Nothing
       THEN /\ resp' = Answer("replace_object", image_id,
                              Reply(404, "Image not found", Nothing))
            /\ UNCHANGED <<db, files>>
       ELSE IF ~chatOk
       THEN /\ resp' = Answer("replace_object", image_id, Unhandled)
            /\ UNCHANGED <<db, files>>
       ELSE LET original_size == GetSize(record[1]) IN
            \E g \in GeminiImage(original_size) :
               IF g = Nothing
               THEN /\ resp' = Answer("replace_object", image_id, Unhandled)
                    /\ UNCHANGED <<db, files>>
               ELSE LET new_record ==
                            [id |-> NewId, size |-> original_size,
                             created_at |-> IsoFormat(now),
                             parent_id |-> image_id,
                             edit_type |-> "object_replacement"] IN
                    /\ files' = Append(files,
                                       TryPostprocess(g[1], original_size))
                    /\ db' = Append(db, new_record)
                    /\ resp' = Answer("replace_object", image_id,
                                      Reply(200, "", <<new_record>>))
    /\ UNCHANGED OutsideStore

\* The directions and amounts of the outpaint requests of the model; amount
\* is an int from 10 to 100 by the request model.
DirectionSets == {{"left", "right"}, {"up"}, {"sideways"}}
Amounts == {50, 33}

\* The extension taken for every direction, selected or not.
Extension_Unselected(orig, amount, d, directions) ==
    (orig * amount) \div 100

\* int(orig * req.amount / 100) if d in req.directions else 0
Extension(orig, amount, d, directions) ==
    IF d \in directions THEN (orig * amount) \div 100 ELSE 0

\* outpaint_image
St_Outpaint(image_id, directions, amount) ==
    /\ Len(files) < MaxStored
    /\ LET record == Find(db, image_id) IN
       IF record = Nothing
       THEN /\ resp' = Answer("outpaint", image_id,
                              Reply(404, "Image not found", Nothing))
            /\ UNCHANGED <<db, files>>
       ELSE IF ~(directions \subseteq {"up", "down", "left", "right"})
       THEN /\ resp' = Answer("outpaint", image_id,
                              Reply(400, "Invalid direction", Nothing))
            /\ UNCHANGED <<db, files>>
       ELSE IF ~files[record[1].id].intact
       THEN /\ resp' = Answer("outpaint", image_id, Unhandled)
            /\ UNCHANGED <<db, files>>
       ELSE LET img == files[record[1].id]
                orig_w == img.dims[1]
                orig_h == img.dims[2]
                new_w == orig_w + Extension(orig_w, amount, "left", directions)
                                + Extension(orig_w, amount, "right", directions)
                new_h == orig_h + Extension(orig_h, amount, "up", directions)
                                + Extension(orig_h, amount, "down", directions)
                gen_size == IF new_w > new_h THEN SizeText(1536, 1024)
                            ELSE IF new_h > new_w THEN SizeText(1024, 1536)
                            ELSE SizeText(1024, 1024)
                new_record == [id |-> NewId, parent_id |-> image_id,
                               size |-> SizeText(new_w, new_h),
                               outpainted |-> TRUE,
                               outpaint_directions |-> directions,
                               outpaint_amount |-> amount,
                               created_at |-> IsoFormat(now)] IN
            \E g \in {Nothing} \cup {<<f>> : f \in AdapterFiles(gen_size)} :
               IF g = Nothing
               THEN /\ resp' = Answer("outpaint", image_id,
                                      Reply(500, "Outpainting failed",
                                            Nothing))
                    /\ UNCHANGED <<db, files>>
               ELSE IF ~g[1].intact
               THEN \* the resize raises; the file the adapter wrote stays
                    /\ resp' = Answer("outpaint", image_id,
                                      Reply(500, "Outpainting failed",
                                            Nothing))
                    /\ files' = Append(files, g[1])
                    /\ UNCHANGED db
               ELSE /\ files' = Append(files,
                                       ImageFile(<<new_w, new_h>>, TRUE))
                    /\ db' = Append(db, new_record)
                    /\ resp' = Answer("outpaint", image_id,
                                      Reply(200, "", <<new_record>>))
    /\ UNCHANGED OutsideStore

\* The position of the first record with this id.
IndexOf(list, id) ==
    CHOOSE k \in 1..Len(list) :
        /\ list[k].id = id
        /\ \A h \in 1..(k - 1) : list[h].id # id

\* record[key] = value
SetField(r, key, value) ==
    [k \in DOMAIN r \cup {key} |-> IF k = key THEN value ELSE r[k]]

\* toggle_favorite
St_Favorite(image_id) ==
    /\ LET record == Find(db, image_id) IN
       IF record = Nothing
       THEN /\ resp' = Answer("favorite", image_id,
                              Reply(404, "Image not found", Nothing))
            /\ UNCHANGED db
       ELSE LET was == IF "favorited" \in DOMAIN record[1]
                       THEN record[1].favorited ELSE FALSE
                updated == SetField(record[1], "favorited", ~was) IN
            /\ db' = [db EXCEPT ![IndexOf(db, image_id)] = updated]
            /\ resp' = Answer("favorite", image_id,
                              Reply(200, "",
                                    <<[id |-> image_id,
                                       favorited |-> ~was]>>))
    /\ UNCHANGED <<files, reading>>
    /\ UNCHANGED OutsideStore

\* export_svg: vtracer reads the raster and writes <id>.svg beside it; the
\* handler then writes the name of that file into the record.
St_ExportSvg(image_id) ==
    /\ LET record == Find(db, image_id) IN
       IF record = Nothing
       THEN /\ resp' = Answer("export_svg", image_id,
                              Reply(404, "Image not found", Nothing))
            /\ UNCHANGED db
       ELSE IF ~files[record[1].id].intact
       THEN /\ resp' = Answer("export_svg", image_id, Unhandled)
            /\ UNCHANGED db
       ELSE LET svg_filename == <<image_id, ".svg">>
                updated == SetField(record[1], "svg_filename",
                                    svg_filename) IN
            /\ db' = [db EXCEPT ![IndexOf(db, image_id)] = updated]
            /\ resp' = Answer("export_svg", image_id,
                              Reply(200, "", <<svg_filename>>))
    /\ UNCHANGED <<files, reading>>
    /\ UNCHANGED OutsideStore

\* The ids a request to the store may name: those of the files stored and
\* the next, which no record has.
StoredOrNext == 1..(Len(files) + 1)

\* The handlers that add a record and a raster.
NextStore ==
    \/ \E size \in RequestSizes : St_Generate(size)
    \/ \E size \in UploadSizes, strength \in RequestStrengths,
          content_type \in ContentTypes :
          St_StyleTransfer(size, strength, content_type)
    \/ \E i \in 1..MaxReading, upload \in UploadOutcomes :
          St_StyleTransferResume(i, upload)
    \/ \E size \in UploadSizes, content_type \in ContentTypes :
          St_FromImage(size, content_type)
    \/ \E i \in 1..MaxReading, upload \in UploadOutcomes :
          St_FromImageResume(i, upload)
    \/ \E id \in StoredOrNext : St_Refine(id)
    \/ \E id \in StoredOrNext, maskOk \in BOOLEAN : St_Inpaint(id, maskOk)
    \/ \E id \in StoredOrNext, scale \in 2..4 : St_Upscale(id, scale)
    \/ \E id \in StoredOrNext : St_Adjust(id)
    \/ \E id \in StoredOrNext, rembgOk \in BOOLEAN :
          St_RemoveBackground(id, rembgOk)
    \/ \E id \in StoredOrNext : St_DepthMap(id)
    \/ \E id \in StoredOrNext, scene \in RequestScenes, chatOk \in BOOLEAN :
          St_ProductPhoto(id, scene, chatOk)
    \/ \E id \in StoredOrNext, chatOk \in BOOLEAN : St_ReplaceObject(id, chatOk)
    \/ \E id \in StoredOrNext, directions \in DirectionSets,
          amount \in Amounts : St_Outpaint(id, directions, amount)

\* The handlers that write into a record that exists, with one of those
\* that add records.
NextEdit ==
    \/ \E size \in VALID_SIZES : St_Generate(size)
    \/ \E id \in RequestIds : St_Favorite(id)
    \/ \E id \in RequestIds : St_ExportSvg(id)

(***************************************************************************)
(* The mask of inpaint, along one row of pixels                            *)
(***************************************************************************)

\* The pixels of the stretch of a mask row the model follows.
RowLen == 4

\* Intensities of the decoded L-mode mask.
MaskLevels == {0, 50, 128, 129, 200, 255}

\* How many times the parent's raster is as wide as the size asked of the
\* adapter: 1 for a parent of a valid size, 2 for a parent upscaled by 2.
Scales == {1, 2}

\* Image.resize(size, Image.LANCZOS) of Pillow on 8-bit channels, for a
\* reduction to half the width: the twelve weights of an output pixel in
\* fixed point (PrecisionBits fraction bits), over the input pixels
\* 2j - 5 .. 2j + 6 for the output pixel j (from 0).
PrecisionBits == 22
LanczosHalf == <<15473, 63150, -142601, -279497, 568350, 1872276,
                 1872276, 568350, -279497, -142601, 63150, 15473>>

\* The row beyond the stretch continues with the value at its end (the
\* stretch lies away from the border of the image).
At(row, x) == row[IF x < 1 THEN 1 ELSE IF x > Len(row) THEN Len(row) ELSE x]

Clip8(v) == IF v < 0 THEN 0 ELSE IF v > 255 THEN 255 ELSE v

RECURSIVE Weighted(_, _, _)
Weighted(row, first, t) ==
    IF t > Len(LanczosHalf) THEN 0
    ELSE At(row, first + t - 1) * LanczosHalf[t]
         + Weighted(row, first, t + 1)

\* The resize giving back the row whatever the new width.
ResizeRow_Keep(row, n) == row

\* row.resize(n, LANCZOS): a copy when the width stays, the reduction to
\* half otherwise. Output pixel j from 1 reads the input pixels
\* 2j - 6 .. 2j + 5 from 1.
ResizeRow(row, n) ==
    IF n = Len(row) THEN row
    ELSE [j \in 1..n |->
             Clip8((2 ^ (PrecisionBits - 1) + Weighted(row, 2 * j - 6, 1))
                   \div (2 ^ PrecisionBits))]

\* if mask_pixels[x, y] > 128: rgba_pixels[x, y] = (0, 0, 0, 0), on a mask
\* that starts as (0, 0, 0, 255): the alpha channel.
MaskToAlpha(mask_resized) ==
    [k \in 1..Len(mask_resized) |->
        IF mask_resized[k] > 128 THEN 0 ELSE 255]

MskIdle == [state |-> "idle", scale |-> 1, mask_resized |-> <<>>,
            rgba_mask |-> <<>>, mask_for_api |-> <<>>]

\* inpaint decodes the mask and resizes it to the size of the parent's
\* raster; the mask arrives at that size, so the resize is a copy.
Msk_Decode(scale, row) ==
    /\ msk.state = "idle"
    /\ msk' = [state |-> "resized", scale |-> scale,
               mask_resized |-> ResizeRow(row, Len(row)),
               rgba_mask |-> <<>>, mask_for_api |-> <<>>]
    /\ UNCHANGED <<lab, norm, enr>>
    /\ UNCHANGED <<ex, adapterOk, agg, jobs, units, runner, jobs_db,
                   runner_db, db, now, resp, files, reading,
                   Handlers>>

\* The loop over the pixels.
Msk_Convert ==
    /\ msk.state = "resized"
    /\ msk' = [msk EXCEPT !.state = "converted",
                          !.rgba_mask = MaskToAlpha(msk.mask_resized)]
    /\ UNCHANGED <<lab, norm, enr>>
    /\ UNCHANGED <<ex, adapterOk, agg, jobs, units, runner, jobs_db,
                   runner_db, db, now, resp, files, reading,
                   Handlers>>

\* mask_for_api = rgba_mask.resize((api_w, api_h), Image.LANCZOS), saved
\* and handed to edit_image as mask_path.
Msk_ForApi ==
    /\ msk.state = "converted"
    /\ msk' = [msk EXCEPT !.state = "sent",
                          !.mask_for_api =
                              ResizeRow(msk.rgba_mask,
                                        Len(msk.rgba_mask) \div msk.scale)]
    /\ UNCHANGED <<lab, norm, enr>>
    /\ UNCHANGED <<ex, adapterOk, agg, jobs, units, runner, jobs_db,
                   runner_db, db, now, resp, files, reading,
                   Handlers>>

NextMask ==
    \/ \E scale \in Scales, row \in [1..RowLen -> MaskLevels] :
          Msk_Decode(scale, row)
    \/ Msk_Convert
    \/ Msk_ForApi

(***************************************************************************)
(* The call sites of chat                                                  *)
(***************************************************************************)

\* Texts are sequences of pieces; f-strings and + are concatenation.
Prompts == {<<"a cat">>, <<"a red door">>, <<"a tall ship">>}

\* What chat returns: Nothing when it raises, the text otherwise.
ChatOutcomes == {Nothing, <<<<"text of chat">>>>, <<<<" padded text ">>>>}

EnrichStyles == {"none", "anime", "cubist"}

\* The style keys and their prompt suffixes.
STYLE_SUFFIXES ==
    "none" :> ""
    @@ "photorealistic" :> ", photorealistic, ultra detailed, 8k, DSLR photo"
    @@ "digital-art" :> ", digital art, vibrant colors, detailed illustration"
    @@ "watercolor" :>
           ", watercolor painting, soft edges, artistic, paper texture"
    @@ "oil-painting" :>
           ", oil painting, rich textures, classical style, canvas"
    @@ "anime" :> ", anime style, manga, Japanese animation, cel shaded"
    @@ "3d-render" :>
           ", 3D render, Cinema 4D, octane render, detailed lighting"
    @@ "minimalist" :>
           ", minimalist, clean lines, simple shapes, modern design"
    @@ "vintage" :> ", vintage, retro, film grain, muted colors, nostalgic"

\* STYLE_SUFFIXES.get(style, "")
StyleSuffix(style) ==
    IF style \in DOMAIN STYLE_SUFFIXES THEN <<STYLE_SUFFIXES[style]>>
    ELSE <<"">>

\* style_strength in tenths.
Strengths == {3, 5, 8}

StrengthWord(strength) ==
    IF strength < 4 THEN "subtly"
    ELSE IF strength < 7 THEN "moderately" ELSE "strongly"

\* str.strip() on the texts of the model.
Strip(text) == IF text = <<" padded text ">> THEN <<"padded text">> ELSE text

\* _build_prompt: the generation prompt (the enhanced prompt it returns
\* besides is not followed).
BuildPrompt(prompt, style, enhance, outcome) ==
    (IF enhance /\ outcome # Nothing THEN outcome[1] ELSE prompt)
    \o StyleSuffix(style)

EnrIdle == [state |-> "idle", site |-> None, input |-> <<>>,
            outcome |-> Nothing, called |-> FALSE, status |-> 0,
            detail |-> None, result |-> <<>>]

\* The request has been answered: with the text the handler went on with
\* (the generation prompt, the enhanced prompt or the identity descriptors)
\* or with an error.
Answered(site, input, outcome, called, reply) ==
    [state |-> "done", site |-> site, input |-> input, outcome |-> outcome,
     called |-> called, status |-> reply.status, detail |-> reply.detail,
     result |-> reply.body]

\* generate: _build_prompt calls chat only when enhance is set.
Enr_Generate(prompt, style, enhance, outcome) ==
    /\ enr' = Answered("generate", prompt, outcome, enhance,
                Reply(200, None,
                      BuildPrompt(prompt, style, enhance, outcome)))
    /\ UNCHANGED <<lab, norm, msk>>
    /\ UNCHANGED <<ex, adapterOk, agg, jobs, units, runner, jobs_db,
                   runner_db, db, now, resp, files, reading,
                   Handlers>>

\* generate_from_image
Enr_FromImage(prompt, style, outcome) ==
    /\ enr' = Answered("generate_from_image", prompt, outcome, TRUE,
                Reply(200, None,
                      IF outcome # Nothing
                      THEN <<"Based on this reference image: ">>
                           \o outcome[1]
                           \o <<". Now apply this modification: ">>
                           \o prompt \o StyleSuffix(style)
                      ELSE prompt \o StyleSuffix(style)))
    /\ UNCHANGED <<lab, norm, msk>>
    /\ UNCHANGED <<ex, adapterOk, agg, jobs, units, runner, jobs_db,
                   runner_db, db, now, resp, files, reading,
                   Handlers>>

\* generate_with_style
Enr_StyleTransfer(prompt, style, strength, outcome) ==
    /\ LET style_description ==
               IF outcome # Nothing THEN outcome[1]
               ELSE <<"artistic, stylized">>
       IN  enr' = Answered("generate_with_style", prompt, outcome, TRUE,
                     Reply(200, None,
                           prompt \o <<", ", StrengthWord(strength),
                                       " in the style of: ">>
                           \o style_description \o StyleSuffix(style)))
    /\ UNCHANGED <<lab, norm, msk>>
    /\ UNCHANGED <<ex, adapterOk, agg, jobs, units, runner, jobs_db,
                   runner_db, db, now, resp, files, reading,
                   Handlers>>

\* create_character_profile: the input is the name of the character.
Enr_CharacterProfile(name, outcome) ==
    /\ enr' = Answered("create_character_profile", name, outcome, TRUE,
                Reply(200, None,
                      IF outcome # Nothing THEN outcome[1]
                      ELSE <<"a character named ">> \o name))
    /\ UNCHANGED <<lab, norm, msk>>
    /\ UNCHANGED <<ex, adapterOk, agg, jobs, units, runner, jobs_db,
                   runner_db, db, now, resp, files, reading,
                   Handlers>>

\* enhance_prompt
Enr_EnhancePrompt(prompt, outcome) ==
    /\ enr' = Answered("enhance_prompt", prompt, outcome, TRUE,
                IF outcome # Nothing THEN Reply(200, None, outcome[1])
                ELSE Reply(500, "Prompt enhancement failed", Nothing))
    /\ UNCHANGED <<lab, norm, msk>>
    /\ UNCHANGED <<ex, adapterOk, agg, jobs, units, runner, jobs_db,
                   runner_db, db, now, resp, files, reading,
                   Handlers>>

\* refine of a parent that exists: the input is the parent's prompt with
\* the instruction.
Enr_Refine(prompt, style, outcome) ==
    /\ enr' = Answered("refine", prompt, outcome, TRUE,
                IF outcome # Nothing
                THEN Reply(200, None, outcome[1] \o StyleSuffix(style))
                ELSE Reply(500, "Prompt merging failed", Nothing))
    /\ UNCHANGED <<lab, norm, msk>>
    /\ UNCHANGED <<ex, adapterOk, agg, jobs, units, runner, jobs_db,
                   runner_db, db, now, resp, files, reading,
                   Handlers>>

\* product_photo of a record that exists: chat is called outside any try.
\* The record and the raster it adds are followed in St_ProductPhoto.
Enr_ProductPhoto(prompt, outcome) ==
    /\ enr' = Answered("product_photo", prompt, outcome, TRUE,
                IF outcome # Nothing
                THEN Reply(200, None,
                           outcome[1]
                           \o <<". ", "scene", ".",
                                " Professional product photography, high resolution, commercial quality.">>)
                ELSE Unhandled)
    /\ UNCHANGED <<lab, norm, msk>>
    /\ UNCHANGED <<ex, adapterOk, agg, jobs, units, runner, jobs_db,
                   runner_db, db, now, resp, files, reading,
                   Handlers>>

\* replace_object of a record that exists: chat is called outside any try.
\* The record and the raster it adds are followed in St_ReplaceObject.
Enr_ReplaceObject(prompt, outcome) ==
    /\ enr' = Answered("replace_object", prompt, outcome, TRUE,
                IF outcome # Nothing
                THEN Reply(200, None, Strip(outcome[1]))
                ELSE Unhandled)
    /\ UNCHANGED <<lab, norm, msk>>
    /\ UNCHANGED <<ex, adapterOk, agg, jobs, units, runner, jobs_db,
                   runner_db, db, now, resp, files, reading,
                   Handlers>>

NextEnrich ==
    \/ \E prompt \in Prompts, style \in EnrichStyles, enhance \in BOOLEAN,
          outcome \in ChatOutcomes :
          Enr_Generate(prompt, style, enhance, outcome)
    \/ \E prompt \in Prompts, style \in EnrichStyles,
          outcome \in ChatOutcomes :
          Enr_FromImage(prompt, style, outcome)
    \/ \E prompt \in Prompts, style \in EnrichStyles, strength \in Strengths,
          outcome \in ChatOutcomes :
          Enr_StyleTransfer(prompt, style, strength, outcome)
    \/ \E name \in Prompts, outcome \in ChatOutcomes :
          Enr_CharacterProfile(name, outcome)
    \/ \E prompt \in Prompts, outcome \in ChatOutcomes :
          Enr_EnhancePrompt(prompt, outcome)
    \/ \E prompt \in Prompts, style \in EnrichStyles,
          outcome \in ChatOutcomes :
          Enr_Refine(prompt, style, outcome)
    \/ \E prompt \in Prompts, outcome \in ChatOutcomes :
          Enr_ProductPhoto(prompt, outcome)
    \/ \E prompt \in Prompts, outcome \in ChatOutcomes :
          Enr_ReplaceObject(prompt, outcome)

(***************************************************************************)
(* Validation of request values                                            *)
(***************************************************************************)

VALID_VIDEO_SIZES == {SizeText(1280, 720), SizeText(720, 1280)}

\* Sizes a request may carry.
RequestedSizes ==
    VALID_SIZES \cup VALID_VIDEO_SIZES \cup {SizeText(512, 512)}

\* Field(ge=..., le=...) of a request model: FastAPI answers 422 before the
\* handler runs when the value is out of range.
InRange(v, ge, le) == ge <= v /\ v <= le

Unprocessable == Reply(422, "value out of range", Nothing)

\* The adapters a chain called before it ended: up to the first success.
RECURSIVE Attempted(_, _)
Attempted(chain, ok) ==
    IF chain = <<>> THEN <<>>
    ELSE IF ok[Head(chain)] THEN <<Head(chain)>>
    ELSE <<Head(chain)>> \o Attempted(Tail(chain), ok)

AnyOk(chain, ok) == \E i \in 1..Len(chain) : ok[chain[i]]

\* generate_image(size=...): ValueError for a size outside VALID_SIZES,
\* raised before the request to the service.
GenerateImageRaisesValueError(size) == size \notin VALID_SIZES

ValIdle == [state |-> "idle", op |-> None, size |-> SizeText(1024, 1024),
            number |-> 0, enum |-> None, status |-> 0, detail |-> None,
            calls |-> <<>>, stored |-> FALSE]

\* One request after its handler returned: the values it carried, the
\* answer, the adapter functions called, and whether a store was written.
Handled(state, op, size, number, enum, reply, calls, stored) ==
    [state |-> state, op |-> op, size |-> size, number |-> number,
     enum |-> enum, status |-> reply.status, detail |-> reply.detail,
     calls |-> calls, stored |-> stored]

\* The answer of a handler whose request passed the checks and which runs a
\* chain of adapters.
ChainAnswer(op, size, chain, ok) ==
    Handled("done", op, size, 0, None,
            IF AnyOk(chain, ok) THEN Reply(200, None, Nothing)
            ELSE Reply(500, "generation failed", Nothing),
            Attempted(chain, ok), AnyOk(chain, ok))

InvalidSize(op, size) ==
    Handled("done", op, size, 0, None, Reply(400, "Invalid size", Nothing),
            <<>>, FALSE)

\* The request passed the checks and its handler is suspended in
\* `await <upload>.read()`.
Reading(op, size) ==
    Handled("reading", op, size, 0, None, Reply(0, None, Nothing), <<>>,
            FALSE)

\* generate (count 1): the size check, then the chain.
Val_Generate(size, ok) ==
    /\ val' = IF size \notin VALID_SIZES THEN InvalidSize("generate", size)
              ELSE ChainAnswer("generate", size, IMAGE_MODELS, ok)
    /\ UNCHANGED <<Core, Helpers, inp, vid, gif, wm, outp>>

\* generate_with_style up to `await style_image.read()`.
Val_StyleTransfer(size) ==
    /\ val' = IF size \notin VALID_SIZES
              THEN InvalidSize("generate_with_style", size)
              ELSE Reading("generate_with_style", size)
    /\ UNCHANGED <<Core, Helpers, inp, vid, gif, wm, outp>>

\* generate_with_style from the upload on: the 10MB limit, then the chain.
Val_StyleTransferResume(tooLarge, ok) ==
    /\ val.state = "reading" /\ val.op = "generate_with_style"
    /\ val' = IF tooLarge
              THEN Handled("done", val.op, val.size, 0, None,
                           Reply(400, "Style image must be under 10MB",
                                 Nothing), <<>>, FALSE)
              ELSE ChainAnswer(val.op, val.size, IMAGE_MODELS, ok)
    /\ UNCHANGED <<Core, Helpers, inp, vid, gif, wm, outp>>

\* generate_from_image up to `await reference.read()`.
Val_FromImage(size) ==
    /\ val' = IF size \notin VALID_SIZES
              THEN InvalidSize("generate_from_image", size)
              ELSE Reading("generate_from_image", size)
    /\ UNCHANGED <<Core, Helpers, inp, vid, gif, wm, outp>>

\* generate_from_image from the upload on: the 10MB limit, then edit_image
\* and the chain of generate_image.
Val_FromImageResume(tooLarge, ok) ==
    /\ val.state = "reading" /\ val.op = "generate_from_image"
    /\ val' = IF tooLarge
              THEN Handled("done", val.op, val.size, 0, None,
                           Reply(400, "Reference image must be under 10MB",
                                 Nothing), <<>>, FALSE)
              ELSE ChainAnswer(val.op, val.size,
                               <<EditStrategy>> \o IMAGE_MODELS, ok)
    /\ UNCHANGED <<Core, Helpers, inp, vid, gif, wm, outp>>

\* The orders in which the calls of two threads can begin: every merge of
\* a and b that keeps the order of each.
RECURSIVE Interleavings(_, _)
Interleavings(a, b) ==
    IF a = <<>> THEN {b}
    ELSE IF b = <<>> THEN {a}
    ELSE {<<Head(a)>> \o t : t \in Interleavings(Tail(a), b)}
         \cup {<<Head(b)>> \o t : t \in Interleavings(a, Tail(b))}

\* compare: one _generate_single per model of IMAGE_MODELS, the model
\* first in its chain, each on its own thread of the pool.
Val_Compare(size, ok) ==
    /\ IF size \notin VALID_SIZES
       THEN val' = InvalidSize("compare", size)
       ELSE \E calls \in
                  Interleavings(Attempted(ModelsToTry(IMAGE_MODELS[1]), ok),
                                Attempted(ModelsToTry(IMAGE_MODELS[2]), ok)) :
               val' = Handled("done", "compare", size, 0, None,
                              IF AnyOk(IMAGE_MODELS, ok)
                              THEN Reply(200, None, Nothing)
                              ELSE Reply(500,
                                         "Both models failed to generate images",
                                         Nothing),
                              calls, AnyOk(IMAGE_MODELS, ok))
    /\ UNCHANGED <<Core, Helpers, inp, vid, gif, wm, outp>>

Qualities == {"standard", "pro", "ultra"}

VIDEO_MODELS == <<"sora", "sora-pro">>

\* generate_video_endpoint: the preferred model first, then the others.
VideoModelsToTry(quality) ==
    LET preferred == IF quality = "standard" THEN "sora" ELSE "sora-pro" IN
    <<preferred>> \o SelectSeq(VIDEO_MODELS, LAMBDA m : m # preferred)

Val_Video(size, quality, ok) ==
    /\ val' =
         IF size \notin VALID_VIDEO_SIZES
         THEN Handled("done", "generate_video", size, 0, quality,
                      Reply(400, "Invalid size", Nothing), <<>>, FALSE)
         ELSE IF quality \notin {"standard", "pro"}
         THEN Handled("done", "generate_video", size, 0, quality,
                      Reply(400, "Quality must be 'standard' or 'pro'",
                            Nothing), <<>>, FALSE)
         ELSE LET chain == VideoModelsToTry(quality) IN
              Handled("done", "generate_video", size, 0, quality,
                      IF AnyOk(chain, ok) THEN Reply(200, None, Nothing)
                      ELSE Reply(500, "Video submission failed", Nothing),
                      Attempted(chain, ok), AnyOk(chain, ok))
    /\ UNCHANGED <<Core, Helpers, inp, vid, gif, wm, outp>>

\* upscale of an asset that exists: no adapter, the file is opened and
\* resized outside any try.
Val_Upscale(scale, intact) ==
    /\ val' =
         IF ~InRange(scale, 2, 4)
         THEN Handled("done", "upscale", ValIdle.size, scale, None,
                      Unprocessable, <<>>, FALSE)
         ELSE IF scale \notin {2, 4}
         THEN Handled("done", "upscale", ValIdle.size, scale, None,
                      Reply(400, "Scale must be 2 or 4", Nothing),
                      <<>>, FALSE)
         ELSE IF ~intact
         THEN Handled("done", "upscale", ValIdle.size, scale, None,
                      Unhandled, <<>>, FALSE)
         ELSE Handled("done", "upscale", ValIdle.size, scale, None,
                      Reply(200, None, Nothing), <<>>, TRUE)
    /\ UNCHANGED <<Core, Helpers, inp, vid, gif, wm, outp>>

Directions == {"up", "down", "left", "right", "sideways"}

\* outpaint_image of an asset that exists, with one direction: the file is
\* opened and converted outside the try around the adapter.
Val_Outpaint(amount, d, intact, genOk) ==
    /\ val' =
         IF ~InRange(amount, 10, 100)
         THEN Handled("done", "outpaint", ValIdle.size, amount, d,
                      Unprocessable, <<>>, FALSE)
         ELSE IF d \notin {"up", "down", "left", "right"}
         THEN Handled("done", "outpaint", ValIdle.size, amount, d,
                      Reply(400, "Invalid direction", Nothing), <<>>, FALSE)
         ELSE IF ~intact
         THEN Handled("done", "outpaint", ValIdle.size, amount, d,
                      Unhandled, <<>>, FALSE)
         ELSE Handled("done", "outpaint", ValIdle.size, amount, d,
                      IF genOk THEN Reply(200, None, Nothing)
                      ELSE Reply(500, "Outpainting failed", Nothing),
                      <<"gemini-image">>, genOk)
    /\ UNCHANGED <<Core, Helpers, inp, vid, gif, wm, outp>>

\* watermark_image of an asset that exists, at a valid position: opacity in
\* hundredths; no adapter, the file is opened and converted outside any
\* try.
Val_Watermark(opacity, intact) ==
    /\ val' =
         IF ~InRange(opacity, 10, 100)
         THEN Handled("done", "watermark", ValIdle.size, opacity, None,
                      Unprocessable, <<>>, FALSE)
         ELSE IF ~intact
         THEN Handled("done", "watermark", ValIdle.size, opacity, None,
                      Unhandled, <<>>, FALSE)
         ELSE Handled("done", "watermark", ValIdle.size, opacity, None,
                      Reply(200, None, Nothing), <<>>, TRUE)
    /\ UNCHANGED <<Core, Helpers, inp, vid, gif, wm, outp>>

\* batch_csv with one row: the size of the row is not checked, the job is
\* stored and the answer is the batch id.
Val_BatchCsv(size) ==
    /\ val.state # "accepted"
    /\ val' = Handled("accepted", "batch_csv", size, 0, None,
                      Reply(200, None, Nothing), <<>>, TRUE)
    /\ UNCHANGED <<Core, Helpers, inp, vid, gif, wm, outp>>

\* The row's _generate_single_batch_item in the pool: generate_image is
\* called with the size of the row.
Val_BatchUnit(genOk) ==
    /\ val.state = "accepted"
    /\ val' = [val EXCEPT
                 !.state = "done",
                 !.calls = <<"gemini-image">>,
                 !.detail =
                     IF GenerateImageRaisesValueError(val.size)
                     THEN "ValueError"
                     ELSE GenerateSingleBatchItem(genOk).exc]
    /\ UNCHANGED <<Core, Helpers, inp, vid, gif, wm, outp>>

NextValidate ==
    \/ \E size \in RequestedSizes, ok \in [Adapters -> BOOLEAN] :
          Val_Generate(size, ok)
    \/ \E size \in RequestedSizes : Val_StyleTransfer(size)
    \/ \E tooLarge \in BOOLEAN, ok \in [Adapters -> BOOLEAN] :
          Val_StyleTransferResume(tooLarge, ok)
    \/ \E size \in RequestedSizes : Val_FromImage(size)
    \/ \E tooLarge \in BOOLEAN, ok \in [Adapters -> BOOLEAN] :
          Val_FromImageResume(tooLarge, ok)
    \/ \E size \in RequestedSizes, ok \in [Adapters -> BOOLEAN] :
          Val_Compare(size, ok)
    \/ \E size \in RequestedSizes, quality \in Qualities,
          ok \in [SeqToSet(VIDEO_MODELS) -> BOOLEAN] :
          Val_Video(size, quality, ok)
    \/ \E scale \in 1..5, intact \in BOOLEAN : Val_Upscale(scale, intact)
    \/ \E amount \in {9, 10, 50, 100, 101}, d \in Directions,
          intact \in BOOLEAN, genOk \in BOOLEAN :
          Val_Outpaint(amount, d, intact, genOk)
    \/ \E opacity \in {9, 10, 30, 100, 101}, intact \in BOOLEAN :
          Val_Watermark(opacity, intact)
    \/ \E size \in RequestedSizes : Val_BatchCsv(size)
    \/ \E genOk \in BOOLEAN : Val_BatchUnit(genOk)

(***************************************************************************)
(* The strategies of inpaint                                               *)
(***************************************************************************)

\* The three calls of inpaint in the order of the nested try blocks:
\* edit_image with mask_path, edit_image with mask_path=None, generate_image
\* with the prompt only.
InpaintStrategies ==
    <<[fn |-> "edit_image", model |-> "gpt-image", mask |-> TRUE],
      [fn |-> "edit_image", model |-> "gpt-image", mask |-> FALSE],
      [fn |-> "generate_image", model |-> "gemini-image", mask |-> FALSE]>>

\* Sizes of the parent record: the valid ones and those of upscaled assets.
ParentSizes ==
    VALID_SIZES \cup {SizeText(2048, 2048), SizeText(3072, 2048),
                      SizeText(2048, 3072)}

InpIdle == [state |-> "idle", parent_size |-> SizeText(1024, 1024),
            api_size |-> SizeText(1024, 1024),
            ok |-> <<FALSE, FALSE, FALSE>>, pos |-> 0, invoked |-> <<>>,
            status |-> 0, detail |-> None, stored |-> FALSE]

\* Where the nested try blocks go after strategy pos returned or raised:
\* the next strategy when it raised and one is left, none (0) otherwise.
AfterStrategy(pos, succeeded) ==
    IF ~succeeded /\ pos < Len(InpaintStrategies) THEN pos + 1 ELSE 0

\* inpaint up to the temp files: the parent is looked up, the mask decoded,
\* the parent's file opened and converted outside any try, both resized to
\* api_size. ok[i] tells whether strategy i will succeed.
Inp_Start(parent, maskOk, parent_size, ok) ==
    /\ inp.state \in {"idle", "done"}
    /\ inp' =
         IF parent = "absent"
         THEN [InpIdle EXCEPT !.state = "done", !.status = 404,
                              !.detail = "Parent image not found"]
         ELSE IF ~maskOk
         THEN [InpIdle EXCEPT !.state = "done", !.status = 400,
                              !.detail = "Invalid mask"]
         ELSE IF parent = "damaged"
         THEN [InpIdle EXCEPT !.state = "done",
                              !.status = Unhandled.status,
                              !.detail = Unhandled.detail]
         ELSE [InpIdle EXCEPT !.state = "strategies", !.pos = 1, !.ok = ok,
                              !.parent_size = parent_size,
                              !.api_size = ApiSize(parent_size)]
    /\ UNCHANGED <<Core, Helpers, val, vid, gif, wm, outp>>

\* One call of a strategy and what the try around it does next.
Inp_Attempt ==
    /\ inp.state = "strategies"
    /\ LET succeeded == inp.ok[inp.pos]
           next == AfterStrategy(inp.pos, succeeded) IN
       inp' = [inp EXCEPT
                 !.invoked = Append(@, InpaintStrategies[inp.pos]),
                 !.pos = next,
                 !.state = IF next # 0 THEN "strategies"
                           ELSE IF succeeded THEN "postprocess"
                           ELSE "raised"]
    /\ UNCHANGED <<Core, Helpers, val, vid, gif, wm, outp>>

\* The last strategy raised: except Exception as e, then finally.
Inp_Fail ==
    /\ inp.state = "raised"
    /\ inp' = [inp EXCEPT !.state = "done", !.status = 500,
                          !.detail = "Inpainting failed"]
    /\ UNCHANGED <<Core, Helpers, val, vid, gif, wm, outp>>

\* postprocess_image (its failure is swallowed), finally, the record.
Inp_Record ==
    /\ inp.state = "postprocess"
    /\ inp' = [inp EXCEPT !.state = "done", !.status = 200,
                          !.stored = TRUE]
    /\ UNCHANGED <<Core, Helpers, val, vid, gif, wm, outp>>

NextInpaint ==
    \/ \E parent \in ParentStates, maskOk \in BOOLEAN,
          parent_size \in ParentSizes,
          ok \in [1..Len(InpaintStrategies) -> BOOLEAN] :
          Inp_Start(parent, maskOk, parent_size, ok)
    \/ Inp_Attempt
    \/ Inp_Fail
    \/ Inp_Record

(***************************************************************************)
(* The submission chain of generate_video_endpoint                         *)
(***************************************************************************)

VidIdle == [state |-> "idle", size |-> SizeText(1280, 720),
            quality |-> "standard", chain |-> <<>>, pos |-> 0,
            ok |-> [m \in SeqToSet(VIDEO_MODELS) |-> FALSE],
            invoked |-> <<>>, used_model |-> None, last_error |-> Nothing,
            status |-> 0, detail |-> None, stored |-> FALSE]

\* generate_video_endpoint up to the loop: the two checks, then the chain.
\* ok[m] tells whether submit_video with model m will return an id.
Vid_Start(size, quality, ok) ==
    /\ vid.state \in {"idle", "done"}
    /\ vid' =
         IF size \notin VALID_VIDEO_SIZES
         THEN [VidIdle EXCEPT !.state = "done", !.size = size,
                              !.quality = quality, !.status = 400,
                              !.detail = "Invalid size"]
         ELSE IF quality \notin {"standard", "pro"}
         THEN [VidIdle EXCEPT !.state = "done", !.size = size,
                              !.quality = quality, !.status = 400,
                              !.detail = "Quality must be 'standard' or 'pro'"]
         ELSE [VidIdle EXCEPT !.state = "trying", !.size = size,
                              !.quality = quality, !.ok = ok, !.pos = 1,
                              !.chain = VideoModelsToTry(quality)]
    /\ UNCHANGED <<Core, Helpers, val, inp, gif, wm, outp>>

\* One pass through the body of `for model in models_to_try`.
Vid_Attempt ==
    /\ vid.state = "trying"
    /\ vid.pos <= Len(vid.chain)
    /\ LET model == vid.chain[vid.pos] IN
       vid' = IF vid.ok[model]
              THEN [vid EXCEPT !.invoked = Append(@, model),
                               !.used_model = model, !.state = "submitted"]
              ELSE [vid EXCEPT !.invoked = Append(@, model),
                               !.last_error = ErrorOf(model), !.pos = @ + 1]
    /\ UNCHANGED <<Core, Helpers, val, inp, gif, wm, outp>>

\* if not sora_video_id: every model raised.
Vid_Exhausted ==
    /\ vid.state = "trying"
    /\ vid.pos > Len(vid.chain)
    /\ vid' = [vid EXCEPT !.state = "done", !.status = 500,
                          !.detail = "Video submission failed"]
    /\ UNCHANGED <<Core, Helpers, val, inp, gif, wm, outp>>

\* The record goes to the videos store and is returned.
Vid_Record ==
    /\ vid.state = "submitted"
    /\ vid' = [vid EXCEPT !.state = "done", !.status = 200, !.stored = TRUE]
    /\ UNCHANGED <<Core, Helpers, val, inp, gif, wm, outp>>

NextVideo ==
    \/ \E size \in VALID_VIDEO_SIZES \cup {SizeText(1024, 1024)},
          quality \in Qualities,
          ok \in [SeqToSet(VIDEO_MODELS) -> BOOLEAN] :
          Vid_Start(size, quality, ok)
    \/ Vid_Attempt
    \/ Vid_Exhausted
    \/ Vid_Record

\* The two chains that take a preferred adapter.
NextPrefer == NextExec \/ NextVideo

(***************************************************************************)
(* The sizing of outpaint_image                                            *)
(***************************************************************************)

\* Rasters outpaint_image may open: the valid sizes, an upscaled asset and
\* an image of 1000 by 800.
OriginalDims ==
    {<<1024, 1024>>, <<1536, 1024>>, <<1024, 1536>>, <<2048, 2048>>,
     <<1000, 800>>}

\* req.directions with every entry valid, as the set of its entries.
ValidDirectionSets == SUBSET {"up", "down", "left", "right"} \ {{}}

\* req.amount, an int from 10 to 100.
OutpaintAmounts == {10, 25, 33, 50, 75, 99, 100}

\* The extensions, the new canvas, the size asked of the adapter and the
\* size written to the record.
OutpaintSizing(orig_w, orig_h, directions, amount) ==
    LET ext_up == Extension(orig_h, amount, "up", directions)
        ext_down == Extension(orig_h, amount, "down", directions)
        ext_left == Extension(orig_w, amount, "left", directions)
        ext_right == Extension(orig_w, amount, "right", directions)
        new_w == orig_w + ext_left + ext_right
        new_h == orig_h + ext_up + ext_down IN
    [ext |-> [up |-> ext_up, down |-> ext_down, left |-> ext_left,
              right |-> ext_right],
     new_w |-> new_w, new_h |-> new_h,
     gen_size |-> IF new_w > new_h THEN SizeText(1536, 1024)
                  ELSE IF new_h > new_w THEN SizeText(1024, 1536)
                  ELSE SizeText(1024, 1024),
     size |-> SizeText(new_w, new_h)]

OutpIdle == [state |-> "idle", orig |-> <<1024, 1024>>, directions |-> {},
             amount |-> 0, sizing |-> OutpaintSizing(1024, 1024, {}, 0),
             raster |-> <<1024, 1024>>, status |-> 0]

\* outpaint_image of a record whose file holds a raster of dims: the file
\* opened and converted outside the try (a damaged one ends the handler
\* before the sizing), the sizing, the adapter's image resized to the new
\* canvas, the record.
Outp_Request(dims, intact, directions, amount, genOk) ==
    /\ LET sizing == OutpaintSizing(dims[1], dims[2], directions, amount) IN
       outp' = IF ~intact
               THEN [OutpIdle EXCEPT !.state = "raised", !.orig = dims,
                                     !.directions = directions,
                                     !.amount = amount, !.raster = dims,
                                     !.status = Unhandled.status]
               ELSE [state |-> "done", orig |-> dims,
                     directions |-> directions,
                     amount |-> amount, sizing |-> sizing,
                     raster |-> IF genOk THEN <<sizing.new_w, sizing.new_h>>
                                ELSE dims,
                     status |-> IF genOk THEN 200 ELSE 500]
    /\ UNCHANGED <<Core, Helpers, val, inp, vid, gif, wm>>

NextOutpaint ==
    \E dims \in OriginalDims, intact \in BOOLEAN,
       directions \in ValidDirectionSets,
       amount \in OutpaintAmounts, genOk \in BOOLEAN :
       Outp_Request(dims, intact, directions, amount, genOk)

(***************************************************************************)
(* export_gif                                                              *)
(***************************************************************************)

GIF_EFFECTS == {"zoom", "pan", "rotate", "pulse", "fade"}

\* duration in hundredths of a second: the accepted ones in steps of a
\* quarter second and some between, and two outside 1..5 seconds.
GifDurations ==
    {100 + 25 * k : k \in 0..16} \cup {105, 115, 199, 499} \cup {99, 501}

GifFps == {10, 15, 24, 12}

\* int(duration * fps) with duration in hundredths.
TotalFrames(duration, fps) == (duration * fps) \div 100

GifIdle == [state |-> "idle", effect |-> "zoom", duration |-> 200,
            fps |-> 15, frames |-> <<>>, status |-> 0, detail |-> None]

\* export_gif: the three checks, the lookup, the file opened and converted
\* outside any try, one frame per i in range(total_frames) (a frame is
\* written as its index i), the GIF file.
Gif_Export(effect, duration, fps, parent) ==
    /\ LET answer(status, detail, frames) ==
               [state |-> "done", effect |-> effect, duration |-> duration,
                fps |-> fps, frames |-> frames, status |-> status,
                detail |-> detail] IN
       gif' =
         IF effect \notin GIF_EFFECTS
         THEN answer(400, "Invalid effect", <<>>)
         ELSE IF ~(100 <= duration /\ duration <= 500)
         THEN answer(400, "Duration must be between 1 and 5 seconds", <<>>)
         ELSE IF fps \notin {10, 15, 24}
         THEN answer(400, "FPS must be 10, 15, or 24", <<>>)
         ELSE IF parent = "absent"
         THEN answer(404, "Image not found", <<>>)
         ELSE IF parent = "damaged"
         THEN answer(Unhandled.status, Unhandled.detail, <<>>)
         ELSE answer(200, None,
                     [n \in 1..TotalFrames(duration, fps) |-> n - 1])
    /\ UNCHANGED <<Core, Helpers, val, inp, vid, wm, outp>>

NextGif ==
    \E effect \in GIF_EFFECTS \cup {"spin"}, duration \in GifDurations,
       fps \in GifFps, parent \in ParentStates :
       Gif_Export(effect, duration, fps, parent)

(***************************************************************************)
(* watermark_image                                                         *)
(***************************************************************************)

\* req.opacity in hundredths: from 0.1 to 1.0 in steps of 0.05, and two
\* values outside.
Opacities == {5 * k : k \in 2..20} \cup {5, 105}

\* int(255 * req.opacity) with the opacity in hundredths.
WatermarkAlpha(opacity) == (255 * opacity) \div 100

\* The alpha of txt_layer where the text covers the pixel by `coverage` of
\* 255: the layer starts transparent and the glyph mask blends the fill in.
LayerAlpha(alpha, coverage) == (alpha * coverage) \div 255

WmIdle == [state |-> "idle", position |-> "bottom-right", opacity |-> 30,
           covered |-> 0, uncovered |-> 0, status |-> 0, detail |-> None,
           stored |-> FALSE]

\* watermark_image with the default color: the request model's range, the
\* lookup, the position, the file opened and converted outside any try, the
\* text layer, the composite, the record.
Wm_Watermark(parent, position, opacity) ==
    /\ LET answer(status, detail, covered, stored) ==
               [state |-> "done", position |-> position,
                opacity |-> opacity, covered |-> covered, uncovered |-> 0,
                status |-> status, detail |-> detail, stored |-> stored] IN
       wm' =
         IF ~InRange(opacity, 10, 100)
         THEN answer(422, Unprocessable.detail, 0, FALSE)
         ELSE IF parent = "absent"
         THEN answer(404, "Image not found", 0, FALSE)
         ELSE IF position \notin WatermarkPositions
         THEN answer(400, "Invalid position", 0, FALSE)
         ELSE IF parent = "damaged"
         THEN answer(Unhandled.status, Unhandled.detail, 0, FALSE)
         ELSE answer(200, None,
                     LayerAlpha(WatermarkAlpha(opacity), 255), TRUE)
    /\ UNCHANGED <<Core, Helpers, val, inp, vid, gif, outp>>

NextWatermark ==
    \E parent \in ParentStates,
       position \in WatermarkPositions \cup {"middle"},
       opacity \in Opacities :
       Wm_Watermark(parent, position, opacity)


(***************************************************************************)
(* Specifications                                                          *)
(***************************************************************************)

Init ==
    /\ InitExec
    /\ agg = AggIdle
    /\ jobs = <<>> /\ units = <<>> /\ runner = <<>>
    /\ jobs_db = AbsentFile /\ runner_db = <<>>
    /\ db = <<>> /\ now = 0 /\ resp = RespNone
    /\ files = <<>>
    /\ reading = <<>>
    /\ lab = LabIdle /\ norm = NormIdle /\ msk = MskIdle /\ enr = EnrIdle
    /\ val = ValIdle /\ inp = InpIdle /\ vid = VidIdle
    /\ gif = GifIdle /\ wm = WmIdle /\ outp = OutpIdle

SpecExec == Init /\ [][NextExec]_vars
SpecAgg == Init /\ [][NextAgg]_vars
SpecBatch == Init /\ [][NextBatch]_vars

\* A handler whose load has returned goes on to its persist, the pool's
\* workers and the thread of _run_batch keep running as long as nothing
\* raises in them, and every call of a worker returns or raises. The load of
\* the thread is taken in the end, whatever it finds in the file.
FairBatch ==
    /\ \A b \in 1..MaxJobs :
          /\ WF_vars(Batch_PersistOpen(b))
          /\ WF_vars(Batch_Persist(b))
          /\ WF_vars(Batch_Complete(b))
          /\ WF_vars(Batch_FinalLoad(b))
          /\ WF_vars(Batch_FinalSaveOpen(b))
          /\ WF_vars(Batch_FinalSave(b))
    /\ \A b \in 1..MaxJobs, u \in 1..MaxRows :
          /\ WF_vars(Batch_UnitStart(b, u))
          /\ WF_vars(Batch_UnitRun(b, u))
          /\ WF_vars(Batch_Collect(b, u))

SpecBatchFair == Init /\ [][NextBatch]_vars /\ FairBatch
SpecLineage == Init /\ [][NextLineage]_vars
SpecLabel == Init /\ [][NextLabel]_vars
SpecNorm == Init /\ [][NextNorm]_vars
SpecStore == Init /\ [][NextStore]_vars
SpecEdit == Init /\ [][NextEdit]_vars
SpecMask == Init /\ [][NextMask]_vars
SpecEnrich == Init /\ [][NextEnrich]_vars
SpecValidate == Init /\ [][NextValidate]_vars
SpecInpaint == Init /\ [][NextInpaint]_vars
SpecPrefer == Init /\ [][NextPrefer]_vars
SpecOutpaint == Init /\ [][NextOutpaint]_vars
SpecGif == Init /\ [][NextGif]_vars
SpecWatermark == Init /\ [][NextWatermark]_vars

(***************************************************************************)
(* Properties of the fallback executor (SpecExec)                          *)
(***************************************************************************)

\* The adapters the request in flight may attempt, in the order of the code.
ChainOf(e) ==
    IF e.op = "_generate_single" THEN ModelsToTry(e.model)
    ELSE <<EditStrategy>> \o IMAGE_MODELS

IsPrefix(a, b) == Len(a) <= Len(b) /\ \A k \in 1..Len(a) : a[k] = b[k]

Finished(e) == e.state \in {"returned", "raised"}

C1_InOrder ==
    ex.state # "idle" =>
        /\ IsPrefix(ex.invoked, ChainOf(ex))
        /\ \A k \in 1..(Len(ex.invoked) - 1) : ~adapterOk[ex.invoked[k]]
        /\ ex.state = "returned" =>
              /\ ex.invoked # <<>>
              /\ adapterOk[ex.invoked[Len(ex.invoked)]]
              /\ ex.result.kind = "ok"
              /\ ex.result.image = Output(ex.invoked[Len(ex.invoked)])

C1_OneAtATime ==
    ex'.invoked = <<>> \/ Len(ex'.invoked) <= Len(ex.invoked) + 1

\* C1: the chain is attempted in list order, one adapter per step; nothing
\* is attempted after an adapter that succeeded, and the result of a request
\* that returns is the output of the last (the first successful) adapter.
C1_FirstSuccessEndsChain == [](C1_InOrder) /\ [][C1_OneAtATime]_vars

\* C1 witness: [A fails, B succeeds, C succeeds] returned B's output; C was
\* not invoked.
C1_Witness ==
    /\ ex.op = "_generate_single" /\ ex.state = "returned"
    /\ Len(ex.chain) = 3
    /\ ~adapterOk[ex.chain[1]] /\ adapterOk[ex.chain[2]] /\ adapterOk[ex.chain[3]]
    /\ ex.invoked = <<ex.chain[1], ex.chain[2]>>
    /\ ex.result.image = Output(ex.chain[2])

\* C2: a finished request has failed exactly when every adapter of its chain
\* failed, and the failure then carries the error of the last adapter of the
\* chain.
C2_AllFailedCarriesLastError ==
    Finished(ex) =>
        LET chain == ChainOf(ex) IN
        /\ ex.state = "raised" <=> \A k \in 1..Len(chain) : ~adapterOk[chain[k]]
        /\ ex.state = "raised" =>
              /\ ex.result.kind \in {"RuntimeError", "HTTPException"}
              /\ ex.invoked = chain
              /\ ex.result.last_error = ErrorOf(chain[Len(chain)])

\* C2 witness: all of [A, B, C] failed.
C2_Witness ==
    /\ ex.op = "_generate_single" /\ ex.state = "raised"
    /\ Len(ex.chain) = 3
    /\ ex.result.last_error = ErrorOf(ex.chain[3])

(***************************************************************************)
(* Properties of the batch coordinator (SpecBatch)                         *)
(***************************************************************************)

JobIds == 1..Len(jobs)

Resolved(j) == j.completed + j.failed

UnitsWith(b, P(_)) == {u \in 1..Len(units[b]) : P(units[b][u])}

C3_Bounded == \A b \in JobIds : Resolved(jobs[b]) <= jobs[b].total

C3_Monotone == \A b \in JobIds : Resolved(jobs'[b]) >= Resolved(jobs[b])

\* C3: in every state of every job completed + failed is at most total, and
\* no step lowers it.
C3_CountersMonotoneBounded == [](C3_Bounded) /\ [][C3_Monotone]_vars

\* C3 witness: a job observed mid-flight, some units counted and some not.
C3_Witness ==
    \E b \in JobIds :
        /\ jobs[b].status = "processing"
        /\ Resolved(jobs[b]) >= 2
        /\ Resolved(jobs[b]) < jobs[b].total

C4_CompleteMeansResolved ==
    \A b \in JobIds :
        jobs[b].status = "complete" =>
            /\ Resolved(jobs[b]) = jobs[b].total
            /\ \A u \in 1..Len(units[b]) : units[b][u].st = "collected"

C4_NeverBack ==
    \A b \in JobIds :
        /\ jobs[b].status = "complete" => jobs'[b].status = "complete"
        /\ jobs'[b].status \in {"processing", "complete"}

\* C4: a job is complete only when every unit has resolved and been counted,
\* and a complete job never returns to processing.
C4_CompleteOnceAfterAll ==
    [](C4_CompleteMeansResolved) /\ [][C4_NeverBack]_vars

\* C4 witness: a job of several units is complete while another is still
\* processing.
C4_Witness ==
    \E b \in JobIds, c \in JobIds :
        /\ jobs[b].status = "complete" /\ jobs[b].total >= 2
        /\ jobs[c].status = "processing"

GenOk(un) == un.gen = "ok"
GenFailed(un) == un.gen = "failed"

\* C5: when a job is complete, completed is the number of units whose
\* generation succeeded and failed the number of units whose generation
\* failed.
C5_CountersMatchOutcomes ==
    \A b \in JobIds :
        jobs[b].status = "complete" =>
            /\ jobs[b].completed = Cardinality(UnitsWith(b, GenOk))
            /\ jobs[b].failed = Cardinality(UnitsWith(b, GenFailed))

IsCollected(un) == un.st = "collected"

C6_CountedOnce ==
    \A b \in JobIds :
        /\ Resolved(jobs[b]) = Cardinality(UnitsWith(b, IsCollected))
        /\ jobs[b].status = "complete" =>
              \A u \in 1..Len(units[b]) :
                  units[b][u].st = "collected" /\ units[b][u].gen # "none"

C6_SiblingsUntouched ==
    \A b \in JobIds, u \in 1..MaxRows :
        (/\ u <= Len(units[b])
         /\ units[b][u].st = "running"
         /\ units'[b][u].st = "raised")
        => \A c \in JobIds, v \in 1..MaxRows :
              (v <= Len(units[c]) /\ <<c, v>> # <<b, u>>)
              => units'[c][v] = units[c][v]

\* C6: the step in which a unit fails changes no other unit, every unit that
\* has been collected is counted exactly once, and a complete job has run and
\* counted every one of its units.
C6_FailureIsolated == [](C6_CountedOnce) /\ [][C6_SiblingsUntouched]_vars

\* C6 witness: a job is complete after a unit whose adapter failed and a unit
\* whose adapter answered were both run and counted.
C6_Witness ==
    \E b \in JobIds :
        /\ jobs[b].status = "complete"
        /\ UnitsWith(b, GenFailed) # {}
        /\ UnitsWith(b, GenOk) # {}

(***************************************************************************)
(* Properties of the synchronous aggregate (SpecAgg)                       *)
(***************************************************************************)

UnitOk(un) == un.res.kind = "ok"
UnitFailed(un) == un.res.kind = "RuntimeError"

HasImage(entry) == entry.image # Nothing
HasError(entry) == entry.error # Nothing

\* The assets and the per-unit errors a 200 answer carries.
ResponseImages(body) ==
    IF "results" \in DOMAIN body THEN SelectSeq(body.results, HasImage)
    ELSE body.images

ResponseErrors(body) ==
    IF "results" \in DOMAIN body THEN SelectSeq(body.results, HasError)
    ELSE IF "errors" \in DOMAIN body THEN body.errors
    ELSE <<>>

\* C7: an aggregate request fails hard exactly when no unit succeeded;
\* otherwise its answer carries one asset per successful unit and one error
\* per failed unit.
C7_PartialFailureReported ==
    agg.state = "responded" =>
        /\ agg.response.status = 500 <=> SelectSeq(agg.unit, UnitOk) = <<>>
        /\ agg.response.status = 200 =>
              /\ Len(ResponseImages(agg.response.body))
                    = Len(SelectSeq(agg.unit, UnitOk))
              /\ Len(ResponseErrors(agg.response.body))
                    = Len(SelectSeq(agg.unit, UnitFailed))

(***************************************************************************)
(* Properties of the lineage navigation (SpecLineage)                      *)
(***************************************************************************)

\* The clock tick an isoformat text stands for.
TickOf(text) ==
    text[1] * TicksPerSecond + (IF Len(text) = 2 THEN text[2] ELSE 0)

Known(id) == \E k \in 1..Len(db) : db[k].id = id

RecordOf(id) == db[CHOOSE k \in 1..Len(db) : db[k].id = id]

HasParent(r) == "parent_id" \in DOMAIN r /\ r.parent_id # NoId

ChildIndexes(id) == {k \in 1..Len(db) : HasParent(db[k]) /\ db[k].parent_id = id}

C9_UndoAnswer ==
    (resp.op = "undo" /\ Known(resp.arg)) =>
        IF HasParent(RecordOf(resp.arg))
        THEN /\ resp.status = 200
             /\ Len(resp.body) = 1
             /\ resp.body[1].id = RecordOf(resp.arg).parent_id
             /\ \E k \in 1..Len(db) : db[k] = resp.body[1]
        ELSE /\ resp.status = 400
             /\ resp.detail = "Nothing to undo"
             /\ resp.body = Nothing

C9_UndoLeavesStore == (resp' # resp /\ resp'.op = "undo") => db' = db

\* C9: undo of an asset with a parent reference answers with the parent
\* record; undo of an asset without one answers NothingToUndo; the store is
\* the same after an undo as before it.
C9_UndoReturnsParent == [](C9_UndoAnswer) /\ [][C9_UndoLeavesStore]_vars

\* C9 witness: for root -> A -> B, undo(B) answered A.
C9_Witness ==
    /\ resp.op = "undo" /\ resp.status = 200
    /\ HasParent(resp.body[1])
    /\ Known(resp.body[1].parent_id)
    /\ ~HasParent(RecordOf(resp.body[1].parent_id))

\* C10: redo of an asset without children answers NothingToRedo; otherwise it
\* answers with a child whose creation time no other child exceeds, and among
\* the children created at that same time with the one that comes first in
\* the store.
C10_RedoReturnsLatestChild ==
    (resp.op = "redo" /\ Known(resp.arg)) =>
        IF ChildIndexes(resp.arg) = {}
        THEN /\ resp.status = 400
             /\ resp.detail = "Nothing to redo"
             /\ resp.body = Nothing
        ELSE /\ resp.status = 200
             /\ Len(resp.body) = 1
             /\ \E k \in ChildIndexes(resp.arg) :
                   /\ db[k] = resp.body[1]
                   /\ \A h \in ChildIndexes(resp.arg) :
                         /\ TickOf(db[h].created_at) <= TickOf(db[k].created_at)
                         /\ TickOf(db[h].created_at) = TickOf(db[k].created_at)
                               => k <= h

\* C10 witness: redo answered the later of two children created at different
\* times, and it is not the child that comes first in the store.
C10_Witness ==
    /\ resp.op = "redo" /\ resp.status = 200
    /\ \E k \in ChildIndexes(resp.arg), h \in ChildIndexes(resp.arg) :
          /\ h < k
          /\ db[k] = resp.body[1]
          /\ TickOf(db[h].created_at) < TickOf(db[k].created_at)

(***************************************************************************)
(* Properties of get_image_history (SpecLineage, SpecLabel)                *)
(***************************************************************************)

StoreIds == {db[k].id : k \in 1..Len(db)}

HistoryOf(id) == History(db, id).body[1]

\* C11: history(assetId) reports canUndo true exactly when undo(assetId)
\* would return an asset and canRedo true exactly when redo(assetId) would
\* return an asset, and its current-position index is the position of
\* assetId in the returned chain.
C11_HistoryAgreesWithUndoRedo ==
    \A id \in StoreIds :
        /\ History(db, id).status = 200
        /\ HistoryOf(id).can_undo <=> (Undo(db, id).status = 200)
        /\ HistoryOf(id).can_redo <=> (Redo(db, id).status = 200)
        /\ LET h == HistoryOf(id) IN
           /\ h.current_index + 1 \in 1..Len(h.history)
           /\ h.history[h.current_index + 1].id = id
           /\ \A k \in 1..Len(h.history) :
                 h.history[k].id = id => k = h.current_index + 1

\* history answered for an asset that has both a parent and a child.
C11_Witness ==
    /\ resp.op = "history"
    /\ resp.status = 200
    /\ resp.body[1].can_undo
    /\ resp.body[1].can_redo
    /\ resp.body[1].current_index = 1
    /\ Len(resp.body[1].history) = 2

\* id a is reached from id b by following parent_id at least once, in at
\* most n steps.
RECURSIVE Reaches(_, _, _)
Reaches(b, a, n) ==
    /\ n > 0
    /\ Known(b)
    /\ HasParent(RecordOf(b))
    /\ \/ RecordOf(b).parent_id = a
       \/ Reaches(RecordOf(b).parent_id, a, n - 1)

C12_Acyclic == \A id \in StoreIds : ~Reaches(id, id, Len(db))

\* The list without its k-th record: the file as it would be had that record
\* been removed (no handler of this version removes one).
Without(list, k) == [h \in 1..(Len(list) - 1) |->
                        IF h < k THEN list[h] ELSE list[h + 1]]

\* With a record missing, the walk from every other record still ends, at
\* the last record whose parent is in the list.
C12_StopsAtMissingParent ==
    \A k \in 1..Len(db) :
        LET less == Without(db, k) IN
        \A h \in 1..Len(less) :
            LET w == RootChain(less, less[h])
                chain == w.chain IN
            /\ w.done
            /\ chain[Len(chain)].id = less[h].id
            /\ \A j \in 1..(Len(chain) - 1) :
                  GetId(chain[j + 1], "parent_id") = chain[j].id
            /\ \/ ~HasParent(chain[1])
               \/ Find(less, chain[1].parent_id) = Nothing
            /\ History(less, less[h].id).status = 200

\* C12: the lineage walk from any asset follows parent_id references
\* backward and always terminates (the parent relation is acyclic in every
\* reachable store), stops without failing when a referenced parent is
\* missing, and yields the chain oldest-first with each entry the parent of
\* the next and the queried asset last.
C12_WalkTerminatesOldestFirst ==
    /\ C12_Acyclic
    /\ C12_StopsAtMissingParent
    /\ \A id \in StoreIds :
          LET w == RootChain(db, RecordOf(id))
              chain == w.chain IN
          /\ w.done
          /\ Len(chain) >= 1
          /\ chain[Len(chain)].id = id
          /\ \A k \in 1..(Len(chain) - 1) :
                GetId(chain[k + 1], "parent_id") = chain[k].id
          /\ \/ ~HasParent(chain[1])
             \/ ~Known(chain[1].parent_id)
          /\ History(db, id).status = 200
          /\ [k \in 1..Len(chain) |-> chain[k].id]
               = [k \in 1..Len(chain) |-> HistoryOf(id).history[k].id]

\* history answered with a chain of three: root, its child, the child's
\* child that was asked about.
C12_Witness ==
    /\ resp.op = "history"
    /\ resp.status = 200
    /\ Len(resp.body[1].history) = 3
    /\ resp.body[1].history[3].id = resp.arg
    /\ resp.body[1].history[1].edit_type = "original"

\* The order the claim gives, and the marker each kind is stored as.
C13_Priority == <<"outpaint", "adjust", "upscale", "background_removal",
                  "style_transfer", "watermark", "refine", "original">>

C13_Applies(kind, r, i) ==
    CASE kind = "outpaint" -> "outpainted" \in DOMAIN r
      [] kind = "adjust" -> "adjusted" \in DOMAIN r
      [] kind = "upscale" -> "upscaled" \in DOMAIN r
      [] kind = "background_removal" -> "background_removed" \in DOMAIN r
      [] kind = "style_transfer" -> "style_transfer" \in DOMAIN r
      [] kind = "watermark" -> "watermarked" \in DOMAIN r
      [] kind = "refine" -> "parent_id" \in DOMAIN r /\ i > 0
      [] kind = "original" -> TRUE

\* C13: history labels every chain entry with exactly one operation kind,
\* and when a record carries several legacy markers the label is the first
\* that applies in the order outpaint > adjust > upscale >
\* background_removal > style_transfer > watermark > refine > original.
C13_LabelIsFirstInPriority ==
    lab.state = "labelled" =>
        \E p \in 1..Len(C13_Priority) :
            /\ lab.edit_type = C13_Priority[p]
            /\ C13_Applies(C13_Priority[p], lab.r, lab.i)
            /\ \A q \in 1..(p - 1) :
                  ~C13_Applies(C13_Priority[q], lab.r, lab.i)

\* An entry with the markers adjusted, outpainted and watermarked, labelled
\* outpaint.
C13_Witness ==
    /\ lab.state = "labelled"
    /\ {"adjusted", "outpainted", "watermarked"} \subseteq DOMAIN lab.r
    /\ lab.edit_type = "outpaint"

(***************************************************************************)
(* Properties of postprocess_image (SpecNorm)                              *)
(***************************************************************************)

\* C17: for every target size (targetW, targetH) and every source size,
\* crop-to-aspect normalize (postprocess_image) produces a raster of exactly
\* targetW by targetH pixels.
C17_OutputIsTargetSize ==
    norm.state = "saved" => norm.out.size = ParseSize(norm.target_size)

\* A source of another aspect ratio and another size than the target,
\* cropped, resized and saved at the target size.
C17_Witness ==
    /\ norm.state = "saved"
    /\ norm.out.cropped
    /\ norm.out.resized
    /\ norm.dims # ParseSize(norm.target_size)
    /\ norm.out.size = ParseSize(norm.target_size)

\* |source ratio - target ratio| compared with a hundredth of the target
\* ratio, for a source of w by h and a target of tw by th.
C18_RelativeWithin(w, h, tw, th) ==
    100 * Abs(w * th - tw * h) <= tw * h

\* The same difference below 0.01, and above it.
C18_AbsoluteBelow(w, h, tw, th) ==
    100 * Abs(w * th - tw * h) < h * th

C18_AbsoluteAbove(w, h, tw, th) ==
    100 * Abs(w * th - tw * h) > h * th

\* The saved image came from the whole source.
C18_OnlyResized ==
    /\ ~norm.out.cropped
    /\ norm.out.box = <<0, 0, norm.dims[1], norm.dims[2]>>

\* The saved image came from a box that keeps the shorter axis whole, has
\* the target's aspect ratio on the longer one (rounded down to a pixel) and
\* equal margins on both sides of it (the second larger by at most a pixel).
C18_CenterCropped ==
    LET w == norm.dims[1]
        h == norm.dims[2]
        tw == ParseSize(norm.target_size)[1]
        th == ParseSize(norm.target_size)[2]
        box == norm.out.box IN
    /\ norm.out.cropped
    /\ IF w * th > tw * h
       THEN /\ box[2] = 0 /\ box[4] = h
            /\ (box[3] - box[1]) * th <= h * tw
            /\ (box[3] - box[1] + 1) * th > h * tw
            /\ (w - box[3]) - box[1] \in {0, 1}
       ELSE /\ box[1] = 0 /\ box[3] = w
            /\ (box[4] - box[2]) * tw <= w * th
            /\ (box[4] - box[2] + 1) * tw > w * th
            /\ (h - box[4]) - box[2] \in {0, 1}

\* C18 as stated: normalize skips cropping and only resizes whenever the
\* source aspect ratio is within 1% of the target aspect ratio (a relative
\* tolerance), and center-crops along the longer axis whenever it is
\* outside that tolerance.
C18_RelativeTolerance ==
    norm.state = "saved" =>
        IF C18_RelativeWithin(norm.dims[1], norm.dims[2],
                              ParseSize(norm.target_size)[1],
                              ParseSize(norm.target_size)[2])
        THEN C18_OnlyResized
        ELSE C18_CenterCropped

\* C18 amended: the tolerance is 0.01 on the absolute difference of the two
\* aspect ratios: below it the image is only resized, above it center-cropped.
C18_AbsoluteTolerance ==
    norm.state = "saved" =>
        LET w == norm.dims[1]
            h == norm.dims[2]
            tw == ParseSize(norm.target_size)[1]
            th == ParseSize(norm.target_size)[2] IN
        /\ C18_AbsoluteBelow(w, h, tw, th) => C18_OnlyResized
        /\ C18_AbsoluteAbove(w, h, tw, th) => C18_CenterCropped

\* A 1512 by 1000 source for a 1536x1024 target: 0.8% off the target ratio,
\* 0.012 off in absolute terms, and cropped.
C18_Witness ==
    /\ norm.state = "saved"
    /\ norm.dims = <<1512, 1000>>
    /\ norm.target_size = SizeText(1536, 1024)
    /\ norm.out.cropped
    /\ norm.out.box = <<6, 0, 1506, 1000>>

(***************************************************************************)
(* Properties of the record store and its rasters (SpecStore, SpecEdit)    *)
(***************************************************************************)

\* The operation kind history gives a record: the label of a chain entry
\* that has its parent before it, or of a first entry.
C14_Kind(r) == EditType(r, IF HasParent(r) THEN 1 ELSE 0)

\* C14: in every reachable state of the record store, every asset whose
\* operation kind is not original has exactly one parent reference.
C14_DerivedAssetHasParent ==
    \A k \in 1..Len(db) :
        C14_Kind(db[k]) # "original" =>
            /\ HasParent(db[k])
            /\ Known(db[k].parent_id)

\* The record of id in the list after the step, if it is still there.
C15_Same(r, list) ==
    \E j \in 1..Len(list) : list[j] = r

C15_SameButFavorited(r, list) ==
    \E j \in 1..Len(list) :
        /\ list[j].id = r.id
        /\ DOMAIN list[j] \ {"favorited"} = DOMAIN r \ {"favorited"}
        /\ \A key \in DOMAIN r \ {"favorited"} : list[j][key] = r[key]

\* C15: once created, an asset record is never changed by any operation
\* other than the favorite toggle: every other operation leaves all fields
\* of every existing record unchanged and only adds records.
C15_OnlyFavoriteChangesRecords ==
    [][\A k \in 1..Len(db) :
          \/ C15_Same(db[k], db')
          \/ /\ resp'.op = "favorite"
             /\ C15_SameButFavorited(db[k], db')]_vars

\* C16: for every asset in the record store, the stored raster's pixel
\* dimensions equal the size declared in the asset's record, after any
\* sequence of generate, refine, inpaint, upscale, adjust and outpaint
\* operations.
C16_RasterHasDeclaredSize ==
    \A k \in 1..Len(db) :
        files[db[k].id].dims = ParseSize(GetSize(db[k]))

(***************************************************************************)
(* Properties of the inpaint mask (SpecMask)                               *)
(***************************************************************************)

\* C19: mask-to-alpha maps every mask pixel whose intensity is above the
\* midpoint (more than 50% of the maximum channel value) to alpha 0 and
\* every other pixel to full alpha, so each alpha value of the mask handed
\* to the adapter is either 0 or the maximum (intensity 200 gives 0,
\* intensity 50 gives the maximum).
C19_AdapterMaskIsBinary ==
    /\ msk.state \in {"converted", "sent"} =>
          \A k \in 1..Len(msk.mask_resized) :
              msk.rgba_mask[k] = IF 2 * msk.mask_resized[k] > 255
                                 THEN 0 ELSE 255
    /\ msk.state = "sent" =>
          \A j \in 1..Len(msk.mask_for_api) :
              msk.mask_for_api[j] \in {0, 255}

(***************************************************************************)
(* Properties of the call sites of chat (SpecEnrich)                       *)
(***************************************************************************)

RECURSIVE C20_Within(_, _)
C20_Within(part, text) ==
    \/ part = <<>>
    \/ /\ Len(text) >= Len(part)
       /\ \/ SubSeq(text, 1, Len(part)) = part
          \/ C20_Within(part, Tail(text))

\* C20: at every call site that uses the chat service, a failure of the
\* service is never surfaced to the caller: the operation answers 200 and
\* its result is built from the input it had before the enrichment.
C20_ChatFailureIsSwallowed ==
    (enr.state = "done" /\ enr.called /\ enr.outcome = Nothing) =>
        /\ enr.status = 200
        /\ C20_Within(enr.input, enr.result)

(***************************************************************************)
(* Properties of validation (SpecValidate)                                 *)
(***************************************************************************)

\* The request carried an invalid size, an out-of-range scale, amount or
\* opacity, or an invalid enum value.
C21_Invalid ==
    CASE val.op \in {"generate", "generate_with_style",
                     "generate_from_image", "compare", "batch_csv"} ->
            val.size \notin VALID_SIZES
      [] val.op = "generate_video" ->
            val.size \notin VALID_VIDEO_SIZES
            \/ val.enum \notin {"standard", "pro"}
      [] val.op = "upscale" -> val.number \notin {2, 4}
      [] val.op = "outpaint" ->
            val.number \notin 10..100
            \/ val.enum \notin {"up", "down", "left", "right"}
      [] val.op = "watermark" -> val.number \notin 10..100
      [] OTHER -> FALSE

\* C21: a request carrying an invalid size, an out-of-range scale, amount
\* or opacity, or an invalid enum value is rejected as a validation error:
\* no adapter is invoked and no store is written.
C21_InvalidIsRejected ==
    (val.state # "idle" /\ C21_Invalid) =>
        /\ val.status \in {400, 422}
        /\ val.calls = <<>>
        /\ ~val.stored

(***************************************************************************)
(* Properties of the inpaint strategies (SpecInpaint)                      *)
(***************************************************************************)

C22_Order == <<"edit with mask", "edit without mask", "regenerate">>

C22_KindOf(call) ==
    IF call.fn = "generate_image" THEN "regenerate"
    ELSE IF call.mask THEN "edit with mask" ELSE "edit without mask"

C22_Kinds == [i \in 1..Len(inp.invoked) |-> C22_KindOf(inp.invoked[i])]

\* The strategies run in the fixed order.
C22_FixedOrder ==
    /\ Len(inp.invoked) <= Len(C22_Order)
    /\ C22_Kinds = SubSeq(C22_Order, 1, Len(inp.invoked))

\* A later strategy is invoked only if every earlier one failed.
C22_LaterOnlyAfterFailures ==
    \A i \in 1..Len(inp.invoked) : \A j \in 1..(i - 1) : ~inp.ok[j]

\* Nothing is invoked after the first success, and the operation then
\* succeeds.
C22_StopsAtFirstSuccess ==
    (inp.state \in {"postprocess", "done"} /\ inp.invoked # <<>>
     /\ \E i \in 1..3 : inp.ok[i]) =>
        /\ inp.ok[Len(inp.invoked)]
        /\ inp.state = "done" => inp.status = 200 /\ inp.stored

\* The operation fails only if all three strategies failed: a request that
\* is not turned down (404, 400) ends without an asset only then.
C22_FailsOnlyIfAllFail ==
    (inp.state = "done" /\ inp.status >= 500) =>
        /\ Len(inp.invoked) = 3
        /\ \A i \in 1..3 : ~inp.ok[i]
        /\ ~inp.stored

\* C22: inpaint runs edit with mask, edit without mask and regeneration
\* from the prompt in this order with first-success semantics: a later
\* strategy runs only if every earlier one failed, nothing runs after the
\* first success, and the operation fails only if all three fail.
C22_InpaintFirstSuccess ==
    /\ C22_FixedOrder
    /\ C22_LaterOnlyAfterFailures
    /\ C22_StopsAtFirstSuccess
    /\ C22_FailsOnlyIfAllFail

(***************************************************************************)
(* Properties of the preferred adapter (SpecPrefer)                        *)
(***************************************************************************)

C23_NoDuplicate(chain) ==
    \A i, j \in 1..Len(chain) : chain[i] = chain[j] => i = j

\* chain is base with p first: p leads, nothing occurs twice, and the rest
\* is base without p, in the order of base.
C23_PreferredFirst(chain, p, base) ==
    /\ chain # <<>>
    /\ chain[1] = p
    /\ C23_NoDuplicate(chain)
    /\ Tail(chain) = SelectSeq(base, LAMBDA m : m # p)

C23_ImageChain ==
    (ex.op = "_generate_single" /\ ex.model # None) =>
        /\ C23_PreferredFirst(ex.chain, ex.model, IMAGE_MODELS)
        /\ C23_NoDuplicate(ex.invoked)

C23_VideoChain ==
    vid.state \in {"trying", "submitted"} \/ vid.status \in {200, 500} =>
        /\ C23_PreferredFirst(vid.chain,
                              IF vid.quality = "standard" THEN "sora"
                              ELSE "sora-pro",
                              VIDEO_MODELS)
        /\ C23_NoDuplicate(vid.invoked)

\* C23: when a caller designates a preferred adapter, the chain that runs
\* has the preferred adapter first, contains no adapter twice, so that no
\* adapter is attempted more than once in one run of the chain, and keeps
\* the remaining adapters in their original relative order.
C23_PreferredAdapterFirst == C23_ImageChain /\ C23_VideoChain

\* The second model of the list was preferred and failed, the first model
\* then answered; a pro video request fell back to sora.
C23_Witness ==
    /\ ex.op = "_generate_single" /\ ex.state = "returned"
    /\ ex.model = IMAGE_MODELS[2]
    /\ ex.invoked = <<IMAGE_MODELS[2], IMAGE_MODELS[1]>>
    /\ vid.state = "done" /\ vid.status = 200
    /\ vid.invoked = <<"sora-pro", "sora">>

(***************************************************************************)
(* Properties of the outpaint sizing (SpecOutpaint)                        *)
(***************************************************************************)

\* The original dimension a direction extends.
C24_Relevant(d) ==
    IF d \in {"up", "down"} THEN outp.orig[2] ELSE outp.orig[1]

\* The canvas and the recorded size are the original plus the extensions
\* on each axis, and an unselected direction extends by 0.
C24_CanvasIsSum ==
    LET z == outp.sizing IN
    /\ \A d \in {"up", "down", "left", "right"} \ outp.directions :
          z.ext[d] = 0
    /\ z.new_w = outp.orig[1] + z.ext.left + z.ext.right
    /\ z.new_h = outp.orig[2] + z.ext.up + z.ext.down
    /\ ParseSize(z.size) = <<z.new_w, z.new_h>>
    /\ outp.status = 200 => outp.raster = <<z.new_w, z.new_h>>

\* C24 as stated: the extension of each selected direction is exactly
\* amountPercent/100 times the relevant original dimension, an unselected
\* direction extends by 0, and the canvas and the recorded size are the
\* original plus the extensions.
C24_ExactExtension ==
    outp.state = "done" =>
        /\ \A d \in outp.directions :
              100 * outp.sizing.ext[d] = outp.amount * C24_Relevant(d)
        /\ C24_CanvasIsSum

\* C24, amended: the extension of each selected direction is
\* amountPercent/100 times the relevant original dimension rounded down to
\* a whole pixel, an unselected direction extends by 0, and the canvas and
\* the recorded size are the original plus the extensions (1000x800 with
\* left and right at 50 gives 2000x800).
C24_TruncatedExtension ==
    outp.state = "done" =>
        /\ \A d \in outp.directions :
              LET e == outp.sizing.ext[d] IN
              /\ 100 * e <= outp.amount * C24_Relevant(d)
              /\ outp.amount * C24_Relevant(d) < 100 * (e + 1)
        /\ C24_CanvasIsSum
        /\ (outp.orig = <<1000, 800>> /\ outp.amount = 50
            /\ outp.directions = {"left", "right"}) =>
               outp.sizing.size = SizeText(2000, 800)

\* 1024x1024 extended up by 33 percent: 337.92 pixels become 337.
C24_Witness ==
    /\ outp.state = "done" /\ outp.status = 200
    /\ outp.orig = <<1024, 1024>> /\ outp.amount = 33
    /\ outp.directions = {"up"}
    /\ outp.sizing.size = SizeText(1024, 1361)

(***************************************************************************)
(* Properties of export_gif (SpecGif)                                      *)
(***************************************************************************)

\* n is round(duration * fps), duration in hundredths of a second: no whole
\* number is nearer to the product (a product ending in .5 has two).
C25_IsRounded(n, duration, fps) ==
    /\ 2 * (100 * n - duration * fps) <= 100
    /\ 2 * (duration * fps - 100 * n) <= 100

\* C25: the GIF has exactly round(durationSeconds * fps) frames for every
\* accepted duration (1 to 5 seconds) and fps (10, 15 or 24): 2.0 s at
\* 15 fps gives 30 frames and 1.0 s at 24 fps gives 24.
C25_FrameCountIsRounded ==
    (gif.state = "done" /\ gif.status = 200) =>
        C25_IsRounded(Len(gif.frames), gif.duration, gif.fps)

(***************************************************************************)
(* Properties of watermark_image (SpecWatermark)                           *)
(***************************************************************************)

\* n is round(255 * opacity), opacity in hundredths: no whole number is
\* nearer to the product (a product ending in .5 has two).
C26_IsRounded(n, opacity) ==
    /\ 2 * (100 * n - 255 * opacity) <= 100
    /\ 2 * (255 * opacity - 100 * n) <= 100

\* C26: for every accepted opacity, the alpha of the watermark overlay at
\* fully covered text pixels, before flattening, is round(255 * opacity);
\* opacity 0.3 gives 76.
C26_OverlayAlphaIsRounded ==
    (wm.state = "done" /\ wm.status = 200) =>
        C26_IsRounded(wm.covered, wm.opacity)

(***************************************************************************)
(* Liveness of the batch coordinator (SpecBatchFair)                       *)
(***************************************************************************)

\* C27: every submitted batch job eventually reaches status complete,
\* given that each unit's adapter call returns or fails: no order of unit
\* successes and failures leaves a job in processing forever.
C27_EveryJobCompletes ==
    \A b \in 1..MaxJobs :
        (Len(jobs) >= b) ~> (Len(jobs) >= b /\ jobs[b].status = "complete")

(***************************************************************************)
(* Observation of a batch job (SpecBatch)                                  *)
(***************************************************************************)

\* What get_batch_status answers for a job: the entry of _batch_status, or,
\* when the process holds none, the entry of the job file.
C28_Observed ==
    {jobs[b] : b \in JobIds} \cup
    (IF jobs_db.ok THEN SeqToSet(jobs_db.list) ELSE {})

\* C28: whenever a batch job is observed through the status query, also
\* while units are still completing, the length of its results list equals
\* its completed counter.
C28_ResultsMatchCompleted ==
    \A j \in C28_Observed : Len(j.results) = j.completed

\* A job observed while it is processing: one row has been counted, one
\* whose adapter call answered has ended and waits for the loop, one is
\* still running.
C28_Witness ==
    \E b \in JobIds :
        /\ jobs[b].status = "processing"
        /\ Resolved(jobs[b]) >= 1
        /\ \E u, v \in 1..Len(units[b]) :
              /\ units[b][u].st = "raised" /\ units[b][u].gen = "ok"
              /\ units[b][v].st = "running"

(***************************************************************************)
(* The persisted batch jobs (SpecBatch)                                    *)
(***************************************************************************)

\* Every thread of _run_batch has written its final persist.
C29_AllFinished ==
    /\ Len(jobs) >= 2
    /\ \A b \in 1..Len(runner) : runner[b] = "done"

\* C29: when several batch jobs are submitted and finish concurrently, the
\* job file ends up holding every submitted job with its final counters and
\* status complete: no job record is lost and none stays processing,
\* whatever the interleaving of one job's final persist with another job's
\* submission or final persist.
C29_EveryJobPersistedComplete ==
    C29_AllFinished =>
        \A b \in JobIds :
            /\ jobs[b].status = "complete"
            /\ jobs_db.ok
            /\ Cardinality({k \in 1..Len(jobs_db.list) :
                               jobs_db.list[k].id = jobs[b].id}) = 1
            /\ \A k \in 1..Len(jobs_db.list) :
                  jobs_db.list[k].id = jobs[b].id
                  => jobs_db.list[k] = jobs[b]

(***************************************************************************)
(* The labels of a comparison (SpecAgg)                                    *)
(***************************************************************************)

\* C30: in a model comparison, every result entry that carries an image and
\* is labelled with model m was produced by adapter m, for every combination
\* of adapter successes and failures.
C30_LabelIsProducer ==
    (agg.op = "compare") =>
        \A k \in 1..Len(agg.results) :
            agg.results[k].image # Nothing =>
                agg.results[k].image[1].raster = Output(agg.results[k].model)

====
